---- MODULE Spec2Model ----
(***************************************************************************)
(* Landmark-based extraction engine of stampede-report:                    *)
(*   src/src/parsers/experiment_sheet.py  (experiment sheet extractor)     *)
(*   src/src/parsers/goals.py             (goal table extractor)           *)
(*   src/src/parsers/journal.py           (journal text extractor)         *)
(*                                                                         *)
(* A Python str is modelled as a sequence of one-character strings, so     *)
(* that strip/lower/startswith/float()/int()/strptime are computed, not    *)
(* assumed.  Optional[T] is modelled as a sequence of length 0 (None) or   *)
(* 1 (the value).  A float is the decimal number its literal denotes       *)
(* (binary rounding is not modelled).                                      *)
(***************************************************************************)
EXTENDS Integers, Sequences, FiniteSets, TLC

(***************************************************************************)
(* Python str primitives                                                   *)
(***************************************************************************)
None == <<>>

Some(x) == <<x>>

UPPER == <<"A","B","C","D","E","F","G","H","I","J","K","L","M",
           "N","O","P","Q","R","S","T","U","V","W","X","Y","Z">>

LOWER == <<"a","b","c","d","e","f","g","h","i","j","k","l","m",
           "n","o","p","q","r","s","t","u","v","w","x","y","z">>

DIGITS == <<"0","1","2","3","4","5","6","7","8","9">>

IsUpperC(c) == \E i \in 1..26 : UPPER[i] = c

IsLowerC(c) == \E i \in 1..26 : LOWER[i] = c

IsDigitC(c) == \E i \in 1..10 : DIGITS[i] = c

IsSpaceC(c) == c \in {" ", "\t", "\n", "\r", "\f"}

DigitVal(c) == (CHOOSE i \in 1..10 : DIGITS[i] = c) - 1

LowerC(c) == IF IsUpperC(c) THEN LOWER[CHOOSE i \in 1..26 : UPPER[i] = c] ELSE c

UpperC(c) == IF IsLowerC(c) THEN UPPER[CHOOSE i \in 1..26 : LOWER[i] = c] ELSE c

\* str.lower()
Lower(s) == [i \in 1..Len(s) |-> LowerC(s[i])]

\* str.upper()
Upper(s) == [i \in 1..Len(s) |-> UpperC(s[i])]

\* str.lstrip()
RECURSIVE LStrip(_)
LStrip(s) == IF s # <<>> /\ IsSpaceC(Head(s)) THEN LStrip(Tail(s)) ELSE s

\* str.rstrip()
RECURSIVE RStrip(_)
RStrip(s) ==
  IF s # <<>> /\ IsSpaceC(s[Len(s)]) THEN RStrip(SubSeq(s, 1, Len(s) - 1)) ELSE s

\* str.strip()
Strip(s) == RStrip(LStrip(s))

\* s.startswith(p)
StartsWith(s, p) == Len(p) <= Len(s) /\ SubSeq(s, 1, Len(p)) = p

\* p in s
Contains(s, p) ==
  \E i \in 1..(Len(s) - Len(p) + 1) : SubSeq(s, i, i + Len(p) - 1) = p

\* s.replace(old, new), old non-empty: leftmost non-overlapping occurrences
RECURSIVE Replace(_, _, _)
Replace(s, old, new) ==
  IF s = <<>> THEN <<>>
  ELSE IF StartsWith(s, old)
       THEN new \o Replace(SubSeq(s, Len(old) + 1, Len(s)), old, new)
       ELSE <<Head(s)>> \o Replace(Tail(s), old, new)

\* sep.join(parts)
RECURSIVE Join(_, _)
Join(parts, sep) ==
  IF parts = <<>> THEN <<>>
  ELSE IF Len(parts) = 1 THEN parts[1]
       ELSE parts[1] \o sep \o Join(Tail(parts), sep)

\* s.split(ch) for a one-character separator: always at least one part
RECURSIVE SplitAcc(_, _, _)
SplitAcc(s, ch, cur) ==
  IF s = <<>> THEN <<cur>>
  ELSE IF Head(s) = ch THEN <<cur>> \o SplitAcc(Tail(s), ch, <<>>)
       ELSE SplitAcc(Tail(s), ch, Append(cur, Head(s)))

Split(s, ch) == SplitAcc(s, ch, <<>>)

\* [x for x in seq if keep(x)]
RECURSIVE SelectNonEmpty(_)
SelectNonEmpty(seq) ==
  IF seq = <<>> THEN <<>>
  ELSE IF Head(seq) # <<>> THEN <<Head(seq)>> \o SelectNonEmpty(Tail(seq))
       ELSE SelectNonEmpty(Tail(seq))

AllDigits(s) == \A i \in 1..Len(s) : IsDigitC(s[i])

\* value of a run of decimal digits, underscores skipped
RECURSIVE DigitsValAcc(_, _)
DigitsValAcc(s, acc) ==
  IF s = <<>> THEN acc
  ELSE IF Head(s) = "_" THEN DigitsValAcc(Tail(s), acc)
       ELSE DigitsValAcc(Tail(s), 10 * acc + DigitVal(Head(s)))

DigitsVal(s) == DigitsValAcc(s, 0)

\* number of digit characters
RECURSIVE DigitCount(_)
DigitCount(s) ==
  IF s = <<>> THEN 0
  ELSE (IF IsDigitC(Head(s)) THEN 1 ELSE 0) + DigitCount(Tail(s))

\* Python's digitpart: digit (["_"] digit)*
IsDigitPart(s) ==
  /\ s # <<>>
  /\ \A i \in 1..Len(s) : IsDigitC(s[i]) \/ s[i] = "_"
  /\ IsDigitC(s[1]) /\ IsDigitC(s[Len(s)])
  /\ \A i \in 1..(Len(s) - 1) : ~(s[i] = "_" /\ s[i + 1] = "_")

HasSign(s) == s # <<>> /\ Head(s) \in {"+", "-"}

Unsigned(s) == IF HasSign(s) THEN Tail(s) ELSE s

\* index of the first occurrence of a character of cs in s, 0 if none
FirstIndexOf(s, cs) ==
  IF \E i \in 1..Len(s) : s[i] \in cs
  THEN CHOOSE i \in 1..Len(s) : s[i] \in cs /\ \A j \in 1..(i - 1) : s[j] \notin cs
  ELSE 0

(***************************************************************************)
(* Python float() and int() on a str                                       *)
(***************************************************************************)
\* a finite float is (-1)^neg * mant * 10^exp with mant free of trailing
\* zero digits, so that equal numbers have equal records (up to -0.0)
RECURSIVE NormNum(_, _, _)
NormNum(neg, mant, exp) ==
  IF mant = 0 THEN [kind |-> "num", neg |-> neg, mant |-> 0, exp |-> 0]
  ELSE IF mant % 10 = 0 THEN NormNum(neg, mant \div 10, exp + 1)
       ELSE [kind |-> "num", neg |-> neg, mant |-> mant, exp |-> exp]

FloatZero == NormNum(FALSE, 0, 0)

\* Python ==  on two floats (nan is unequal to everything, -0.0 == 0.0)
FloatEq(a, b) ==
  /\ a.kind # "nan" /\ b.kind # "nan"
  /\ a.kind = b.kind
  /\ a.mant = b.mant /\ a.exp = b.exp
  /\ (a.neg = b.neg \/ (a.kind = "num" /\ a.mant = 0))

\* [digitpart] ["." [digitpart]] with at least one digitpart
IsPointFloat(m) ==
  LET d == FirstIndexOf(m, {"."})
      ip == IF d = 0 THEN m ELSE SubSeq(m, 1, d - 1)
      fp == IF d = 0 THEN <<>> ELSE SubSeq(m, d + 1, Len(m))
  IN /\ (ip = <<>> \/ IsDigitPart(ip))
     /\ (fp = <<>> \/ IsDigitPart(fp))
     /\ (ip # <<>> \/ fp # <<>>)

IsExponent(x) == IsDigitPart(Unsigned(x))

\* float(s): None models ValueError
PyFloat(s) ==
  LET t == Strip(s)
      neg == t # <<>> /\ Head(t) = "-"
      u == Unsigned(t)
      lu == Lower(u)
      e == FirstIndexOf(lu, {"e"})
      m == IF e = 0 THEN u ELSE SubSeq(u, 1, e - 1)
      x == IF e = 0 THEN <<>> ELSE SubSeq(u, e + 1, Len(u))
      d == FirstIndexOf(m, {"."})
      ip == IF d = 0 THEN m ELSE SubSeq(m, 1, d - 1)
      fp == IF d = 0 THEN <<>> ELSE SubSeq(m, d + 1, Len(m))
      xv == IF e = 0 THEN 0
            ELSE IF Head(x) = "-" THEN 0 - DigitsVal(Unsigned(x))
                 ELSE DigitsVal(Unsigned(x))
  IN IF lu \in {<<"i","n","f">>, <<"i","n","f","i","n","i","t","y">>}
     THEN Some([kind |-> "inf", neg |-> neg, mant |-> 0, exp |-> 0])
     ELSE IF lu = <<"n","a","n">>
     THEN Some([kind |-> "nan", neg |-> neg, mant |-> 0, exp |-> 0])
     ELSE IF IsPointFloat(m) /\ (e = 0 \/ IsExponent(x))
     THEN Some(NormNum(neg, DigitsVal(ip \o fp), xv - DigitCount(fp)))
     ELSE None

\* int(s), base 10: None models ValueError
PyInt(s) ==
  LET t == Strip(s)
      u == Unsigned(t)
  IN IF IsDigitPart(u)
     THEN Some(IF Head(t) = "-" THEN 0 - DigitsVal(u) ELSE DigitsVal(u))
     ELSE None

(***************************************************************************)
(* datetime.date                                                           *)
(***************************************************************************)
IsLeap(y) == (y % 4 = 0 /\ y % 100 # 0) \/ y % 400 = 0

DaysInMonth(y, m) ==
  IF m = 2 THEN (IF IsLeap(y) THEN 29 ELSE 28)
  ELSE IF m \in {4, 6, 9, 11} THEN 30 ELSE 31

\* date(y, m, d): None models ValueError
PyDate(y, m, d) ==
  IF y >= 1 /\ y <= 9999 /\ m >= 1 /\ m <= 12 /\ d >= 1 /\ d <= DaysInMonth(y, m)
  THEN Some([y |-> y, m |-> m, d |-> d])
  ELSE None

(***************************************************************************)
(* experiment_sheet.py: grid accessor, date inference, header metadata     *)
(***************************************************************************)
\* seq[i] of a Python list: None stands for IndexError
PyItem(seq, i) ==
  IF 0 <= i /\ i < Len(seq) THEN Some(seq[i + 1])
  ELSE IF 0 - Len(seq) <= i /\ i < 0 THEN Some(seq[Len(seq) + i + 1])
       ELSE None

\* _cell without the test for a negative column
CellNegativeColumn(rows, r, c) ==
  IF r < 0 \/ r >= Len(rows) THEN <<>>
  ELSE IF c >= Len(rows[r + 1]) \/ PyItem(rows[r + 1], c) = None THEN <<>>
       ELSE Strip(PyItem(rows[r + 1], c)[1])

\* rows and columns are 0-indexed as in the source
Cell(rows, r, c) ==
  IF r < 0 \/ r >= Len(rows) THEN <<>>
  ELSE IF c < 0 \/ c >= Len(rows[r + 1]) THEN <<>>
       ELSE Strip(rows[r + 1][c + 1])

\* rows[r] or row[c] is evaluated by _cell and raises IndexError
CellRaises(rows, r, c) ==
  /\ ~(r < 0 \/ r >= Len(rows))
  /\ \/ PyItem(rows, r) = None
     \/ /\ ~(c < 0 \/ c >= Len(PyItem(rows, r)[1]))
        /\ PyItem(PyItem(rows, r)[1], c) = None

\* re.search(r"(\d{2})_(\d{2})_(\d{4})", filename): the leftmost match only
DatePatternAt(f, i) ==
  /\ i + 9 <= Len(f)
  /\ \A k \in {0, 1, 3, 4, 6, 7, 8, 9} : IsDigitC(f[i + k])
  /\ f[i + 2] = "_" /\ f[i + 5] = "_"

ExtractDateFromFilename(f) ==
  IF \E i \in 1..Len(f) : DatePatternAt(f, i)
  THEN LET i == CHOOSE i \in 1..Len(f) :
                  DatePatternAt(f, i) /\ \A j \in 1..(i - 1) : ~DatePatternAt(f, j)
       IN PyDate(DigitsVal(SubSeq(f, i + 6, i + 9)),
                 DigitsVal(SubSeq(f, i, i + 1)),
                 DigitsVal(SubSeq(f, i + 3, i + 4)))
  ELSE None

\* Experiment(source_file=...): the data model's defaults
NewExperiment(source) ==
  [source_file |-> source, experiment_date |-> None, purpose |-> <<>>,
   experiments_desc |-> <<>>, tester |-> <<>>, device |-> <<>>,
   notes |-> <<>>, resume |-> <<>>, channel_assignments |-> <<>>,
   runs |-> <<>>, reagent_formulations |-> <<>>]

StartsWithAny(s, ps) == \E p \in ps : StartsWith(s, p)

StopExperiments == {<<"t","e","s","t","e","r">>, <<"d","e","v","i","c","e">>, <<"n","o","t","e","s">>, <<"r","e","s","u","m","e">>, <<"f","a","m">>, <<"r","o","x">>}

StopNotes == {<<"r","e","s","u","m","e">>, <<"v","i","d","e","o">>, <<"f","a","m">>, <<"r","o","x">>, <<"d","e","v","i","c","e">>, <<"t","e","s","t","e","r">>}

StopResume == {<<"f","a","m">>, <<"r","o","x">>, <<"n","o","t","e","s">>}

\* the while loop of a multi-row field: column 2 of rows j, j+1, ... below
\* row i, until a stop label, the end of the grid or row i + cap
RECURSIVE AccumLines(_, _, _, _, _)
AccumLines(rows, j, last, stops, lines) ==
  IF j >= Len(rows) \/ j >= last THEN lines
  ELSE LET next_a == Lower(Cell(rows, j, 0))
           val == Cell(rows, j, 2)
       IN IF next_a # <<>> /\ StartsWithAny(next_a, stops) THEN lines
          ELSE AccumLines(rows, j + 1, last, stops,
                          IF val # <<>> THEN Append(lines, val) ELSE lines)

\* a multi-row field read to the end of the grid, without the row cap
MultiRowNoCap(rows, i, cap, stops) ==
  Join(AccumLines(rows, i + 1, Len(rows), stops, <<Cell(rows, i, 2)>>), <<"\n">>)

MultiRow(rows, i, cap, stops) ==
  Join(AccumLines(rows, i + 1, i + cap, stops, <<Cell(rows, i, 2)>>), <<"\n">>)

\* one iteration of the header loop, at row i
HeaderRow(rows, i, exp) ==
  LET col_a == Lower(Cell(rows, i, 0))
  IN IF col_a = <<"p","u","r","p","o","s","e">>
     THEN [exp EXCEPT !.purpose = Cell(rows, i, 2)]
     ELSE IF StartsWith(col_a, <<"e","x","p","e","r","i","m","e","n","t">>)
     THEN [exp EXCEPT !.experiments_desc = MultiRow(rows, i, 6, StopExperiments)]
     ELSE IF StartsWith(col_a, <<"t","e","s","t","e","r">>)
     THEN [exp EXCEPT !.tester = Cell(rows, i, 2)]
     ELSE IF col_a = <<"d","e","v","i","c","e">>
     THEN [exp EXCEPT !.device = Cell(rows, i, 2)]
     ELSE IF StartsWith(col_a, <<"n","o","t","e","s">>)
     THEN [exp EXCEPT !.notes = MultiRow(rows, i, 10, StopNotes)]
     ELSE IF StartsWith(col_a, <<"r","e","s","u","m","e">>)
     THEN [exp EXCEPT !.resume = MultiRow(rows, i, 10, StopResume)]
     ELSE exp

RECURSIVE HeaderLoop(_, _, _)
HeaderLoop(rows, i, exp) ==
  IF i >= Len(rows) \/ i > 40 THEN exp
  ELSE HeaderLoop(rows, i + 1, HeaderRow(rows, i, exp))

ParseHeaderMetadata(rows, exp) == HeaderLoop(rows, 0, exp)

(***************************************************************************)
(* experiment_sheet.py: Ct table anchor and channel assignments            *)
(***************************************************************************)
\* [c.upper() for c in row if c.strip()]
RECURSIVE UpperNonBlank(_)
UpperNonBlank(row) ==
  IF row = <<>> THEN <<>>
  ELSE IF Strip(Head(row)) # <<>> THEN <<Upper(Head(row))>> \o UpperNonBlank(Tail(row))
       ELSE UpperNonBlank(Tail(row))

\* an anchor test that looks at the row text only, not at column 0
IsAnchorRowAnyColumn(rows, i) ==
  LET row_text == Join(UpperNonBlank(rows[i + 1]), <<" ">>)
  IN Contains(row_text, <<"T","R","I","A","L">>) \/ Contains(row_text, <<"R","U","N"," ","I","D">>)

\* column 0 is FAM and the row text holds TRIAL or RUN ID
IsAnchorRow(rows, i) ==
  /\ Upper(Cell(rows, i, 0)) = <<"F","A","M">>
  /\ LET row_text == Join(UpperNonBlank(rows[i + 1]), <<" ">>)
     IN Contains(row_text, <<"T","R","I","A","L">>) \/ Contains(row_text, <<"R","U","N"," ","I","D">>)

\* None when no row qualifies, else the first qualifying row index
FindCtTableStart(rows) ==
  IF \E i \in 0..(Len(rows) - 1) : IsAnchorRow(rows, i)
  THEN Some(CHOOSE i \in 0..(Len(rows) - 1) :
              IsAnchorRow(rows, i) /\ \A j \in 0..(i - 1) : ~IsAnchorRow(rows, j))
  ELSE None

\* re.search(r"CH\s*(\d)", text) matching at position i: the digit matched
RECURSIVE SkipSpaces(_, _)
SkipSpaces(s, k) == IF k <= Len(s) /\ IsSpaceC(s[k]) THEN SkipSpaces(s, k + 1) ELSE k

ChMatchAt(s, i) ==
  /\ i + 1 <= Len(s) /\ s[i] = "C" /\ s[i + 1] = "H"
  /\ LET k == SkipSpaces(s, i + 2) IN k <= Len(s) /\ IsDigitC(s[k])

ExtractChannelNum(s) ==
  IF \E i \in 1..Len(s) : ChMatchAt(s, i)
  THEN LET i == CHOOSE i \in 1..Len(s) :
                  ChMatchAt(s, i) /\ \A j \in 1..(i - 1) : ~ChMatchAt(s, j)
       IN Some(DigitVal(s[SkipSpaces(s, i + 2)]))
  ELSE None

\* the "for offset in range(1, 6)" loop below header row base
RECURSIVE ChannelRows(_, _, _, _, _)
ChannelRows(rows, base, offset, fluor, acc) ==
  IF offset >= 6 THEN acc
  ELSE LET r == base + offset
           col_a == Strip(Upper(Cell(rows, r, 0)))
           ch == ExtractChannelNum(col_a)
       IN ChannelRows(rows, base, offset + 1, fluor,
            IF StartsWith(col_a, <<"C","H">>) /\ ch # None
            THEN Append(acc, [channel_num |-> ch[1], label |-> Cell(rows, r, 1),
                              fluorophore |-> fluor])
            ELSE acc)

\* the "for offset in range(5, 12)" loop looking for the ROX row
RECURSIVE RoxScan(_, _, _, _)
RoxScan(rows, ct_table_row, offset, acc) ==
  IF offset >= 12 THEN acc
  ELSE IF Strip(Upper(Cell(rows, ct_table_row + offset, 0))) = <<"R","O","X">>
       THEN ChannelRows(rows, ct_table_row + offset, 1, <<"R","O","X">>, acc)
       ELSE RoxScan(rows, ct_table_row, offset + 1, acc)

ParseChannelAssignments(rows, ct_table_row, exp) ==
  [exp EXCEPT !.channel_assignments =
     RoxScan(rows, ct_table_row, 5,
             ChannelRows(rows, ct_table_row, 1, <<"F","A","M">>, exp.channel_assignments))]

(***************************************************************************)
(* experiment_sheet.py: Ct columns, Ct values, run rows                    *)
(***************************************************************************)
\* indices c (0-based) of the cells of row that satisfy P, in column order
IsCh0CtHeader(val) ==
  LET v == Lower(Strip(val))
  IN Contains(v, <<"c","t">>) /\ (Contains(v, <<"c","h","0">>) \/ Contains(v, <<"c","h"," ","0">>))

IsAnyCtHeader(val) == Contains(val, <<"C","t">>) \/ Contains(Lower(val), <<"c","t">>)

RECURSIVE Ch0CtPositions(_, _)
Ch0CtPositions(row, c) ==
  IF c >= Len(row) THEN <<>>
  ELSE (IF IsCh0CtHeader(row[c + 1]) THEN <<c>> ELSE <<>>) \o Ch0CtPositions(row, c + 1)

RECURSIVE AnyCtPositions(_, _)
AnyCtPositions(row, c) ==
  IF c >= Len(row) THEN <<>>
  ELSE (IF IsAnyCtHeader(row[c + 1]) THEN <<c>> ELSE <<>>) \o AnyCtPositions(row, c + 1)

\* a column search that takes the default columns below two matches
FindCtColumnsDefaultBelowTwo(rows, ct_table_row) ==
  IF ct_table_row + 1 >= Len(rows) \/ Len(Ch0CtPositions(rows[ct_table_row + 2], 0)) < 2
  THEN [fam_start |-> 6, rox_start |-> 11]
  ELSE [fam_start |-> Ch0CtPositions(rows[ct_table_row + 2], 0)[1],
        rox_start |-> Ch0CtPositions(rows[ct_table_row + 2], 0)[2]]

\* (fam_start, rox_start); the block ends are start + 5
FindCtColumns(rows, ct_table_row) ==
  LET header_row == ct_table_row + 1
  IN IF header_row >= Len(rows) THEN [fam_start |-> 6, rox_start |-> 11]
     ELSE LET row == rows[header_row + 1]
              ct_positions == Ch0CtPositions(row, 0)
              any == AnyCtPositions(row, 0)
              fam1 == IF Len(ct_positions) >= 1 THEN Some(ct_positions[1]) ELSE None
              rox1 == IF Len(ct_positions) >= 2 THEN Some(ct_positions[2])
                      ELSE IF Len(ct_positions) = 1 THEN Some(ct_positions[1] + 5)
                      ELSE None
              fam2 == IF fam1 # None THEN fam1
                      ELSE IF Len(any) >= 1 THEN Some(any[1]) ELSE None
              rox2 == IF fam1 # None THEN rox1
                      ELSE IF Len(any) >= 2 THEN Some(any[2]) ELSE None
              fam_start == IF fam2 = None THEN 6 ELSE fam2[1]
              rox_start == IF rox2 = None THEN fam_start + 5 ELSE rox2[1]
          IN [fam_start |-> fam_start, rox_start |-> rox_start]

\* a Ct parser that treats a zero as a missing value
ParseCtValueZeroAbsent(val) ==
  LET v == Strip(val)
      f == PyFloat(v)
  IN IF v = <<>> \/ v = <<"-">> THEN None
     ELSE IF f # None /\ f[1].kind = "num" /\ f[1].mant = 0 THEN None
     ELSE f

\* a Ct parser that reads "" and "-" as zero
ParseCtValueDashZero(val) ==
  LET v == Strip(val)
  IN IF v = <<>> \/ v = <<"-">> THEN Some(FloatZero) ELSE PyFloat(v)

\* Optional[float]: None for "", "-" and for text float() rejects
ParseCtValue(val) ==
  LET v == Strip(val)
  IN IF v = <<>> \/ v = <<"-">> THEN None ELSE PyFloat(v)

\* CtValues(ch0..ch4) read from five adjacent columns
CtValues(rows, r, start) ==
  [k \in 1..5 |-> ParseCtValue(Cell(rows, r, start + k - 1))]

\* the last column c of the header whose cell satisfies the test, None if none
RECURSIVE LastCol(_, _, _, _)
LastCol(header, c, kind, found) ==
  IF c >= Len(header) THEN found
  ELSE LET v == Upper(Strip(header[c + 1]))
           k == IF v = <<"T","R","I","A","L">> THEN "trial"
                ELSE IF Contains(v, <<"R","U","N"," ","I","D">>) \/ Contains(v, <<"R","U","N","_","I","D">>) THEN "runid"
                ELSE IF v = <<"N","O","T","E","S">> THEN "notes"
                ELSE "other"
       IN LastCol(header, c + 1, kind, IF k = kind THEN Some(c) ELSE found)

\* Run(...): the data model's defaults for the detail fields
NewRun(trial_num, run_id, ct_fam, ct_rox, notes) ==
  [trial_num |-> trial_num, run_id |-> run_id, ct_fam |-> ct_fam, ct_rox |-> ct_rox,
   notes |-> notes, sample_setup |-> None, batch_number |-> None,
   run_notes |-> None, video_file |-> None, report_file |-> None,
   sequence |-> None]

NoCtValues == [k \in 1..5 |-> None]

\* int(s) if s else 0, 0 on ValueError
IntOrZero(s) == IF s = <<>> \/ PyInt(s) = None THEN 0 ELSE PyInt(s)[1]

\* a loop over the data rows that ends at the first row without a run id
RECURSIVE CtRowsStopAtBlank(_, _, _, _, _)
CtRowsStopAtBlank(rows, r, last, cols, runs) ==
  IF r >= Len(rows) \/ r >= last \/ Cell(rows, r, cols.runid_col) = <<>> THEN runs
  ELSE CtRowsStopAtBlank(rows, r + 1, last, cols,
         Append(runs, NewRun(IntOrZero(Cell(rows, r, cols.trial_col)),
                             Cell(rows, r, cols.runid_col),
                             CtValues(rows, r, cols.fam_start),
                             CtValues(rows, r, cols.rox_start),
                             IF cols.notes_col # None
                             THEN Cell(rows, r, cols.notes_col[1]) ELSE <<>>)))

\* the while loop over the data rows r of the table
RECURSIVE CtRows(_, _, _, _, _)
CtRows(rows, r, last, cols, runs) ==
  IF r >= Len(rows) \/ r >= last THEN runs
  ELSE LET trial_str == Cell(rows, r, cols.trial_col)
           run_id == Cell(rows, r, cols.runid_col)
           col_a == Upper(Cell(rows, r, 0))
           skip == \/ (trial_str = <<>> /\ run_id = <<>>)
                   \/ (col_a \in {<<"R","O","X">>, <<>>} /\ run_id = <<>>)
                   \/ run_id = <<>>
           run == NewRun(IntOrZero(trial_str), run_id,
                         CtValues(rows, r, cols.fam_start),
                         CtValues(rows, r, cols.rox_start),
                         IF cols.notes_col # None
                         THEN Cell(rows, r, cols.notes_col[1]) ELSE <<>>)
       IN CtRows(rows, r + 1, last, cols, IF skip THEN runs ELSE Append(runs, run))

ParseCtTable(rows, ct_table_row, exp) ==
  LET ct == FindCtColumns(rows, ct_table_row)
      header_main == IF ct_table_row < Len(rows) THEN rows[ct_table_row + 1] ELSE <<>>
      trial_col == LastCol(header_main, 0, "trial", None)
      runid_col == LastCol(header_main, 0, "runid", None)
      cols == [fam_start |-> ct.fam_start, rox_start |-> ct.rox_start,
               trial_col |-> IF trial_col = None THEN 2 ELSE trial_col[1],
               runid_col |-> IF runid_col = None THEN 3 ELSE runid_col[1],
               notes_col |-> LastCol(header_main, 0, "notes", None)]
  IN [exp EXCEPT !.runs =
        CtRows(rows, ct_table_row + 2, ct_table_row + 15, cols, exp.runs)]

(***************************************************************************)
(* experiment_sheet.py: per-run detail blocks and sequence sections        *)
(***************************************************************************)
\* a step scan whose rows without a step name get no name
RECURSIVE SeqStepsNotSticky(_, _, _, _, _)
SeqStepsNotSticky(rows, r, last, current_step_name, steps) ==
  IF r >= Len(rows) \/ r >= last THEN steps
  ELSE LET col_b == Cell(rows, r, 2)
           col_c == Cell(rows, r, 3)
       IN IF col_b = <<>> /\ col_c = <<>> THEN steps
          ELSE SeqStepsNotSticky(rows, r + 1, last, col_b,
                 IF col_c # <<>>
                 THEN Append(steps, [step_name |-> col_b, temp_c |-> col_c,
                                     time_s |-> Cell(rows, r, 4),
                                     cycles |-> Cell(rows, r, 5),
                                     offset |-> Cell(rows, r, 6)])
                 ELSE steps)

\* the while loop over the step rows r
RECURSIVE SeqSteps(_, _, _, _, _)
SeqSteps(rows, r, last, current_step_name, steps) ==
  IF r >= Len(rows) \/ r >= last THEN steps
  ELSE LET col_b == Cell(rows, r, 2)
           col_c == Cell(rows, r, 3)
           name == IF col_b # <<>> THEN col_b ELSE current_step_name
       IN IF col_b = <<>> /\ col_c = <<>> THEN steps
          ELSE SeqSteps(rows, r + 1, last, name,
                 IF col_c # <<>>
                 THEN Append(steps, [step_name |-> name, temp_c |-> col_c,
                                     time_s |-> Cell(rows, r, 4),
                                     cycles |-> Cell(rows, r, 5),
                                     offset |-> Cell(rows, r, 6)])
                 ELSE steps)

ParseSequenceSection(rows, start_row) ==
  [chip_type |-> Cell(rows, start_row, 2),
   steps |-> IF start_row + 1 >= Len(rows) THEN <<>>
             ELSE SeqSteps(rows, start_row + 2, start_row + 15, <<>>, <<>>)]

IsRunMarker(rows, i) == StartsWith(Upper(Cell(rows, i, 0)), <<"R","U","N"," ","I","D",":">>)

\* marker rows whose join value is the value declared after RUN ID:
RECURSIVE RunDetailStartsJoinDeclared(_, _)
RunDetailStartsJoinDeclared(rows, i) ==
  IF i >= Len(rows) THEN <<>>
  ELSE IF IsRunMarker(rows, i)
       THEN LET inline == Strip(Replace(Upper(Cell(rows, i, 0)), <<"R","U","N"," ","I","D",":">>, <<>>))
                declared == IF inline # <<>> THEN inline ELSE Strip(Cell(rows, i, 1))
            IN <<[row |-> i, run_num_str |-> declared, run_id_value |-> declared]>>
               \o RunDetailStartsJoinDeclared(rows, i + 1)
       ELSE RunDetailStartsJoinDeclared(rows, i + 1)

\* run_detail_starts: (row, run_num_str, run_id_value) of every marker row
RECURSIVE RunDetailStarts(_, _)
RunDetailStarts(rows, i) ==
  IF i >= Len(rows) THEN <<>>
  ELSE IF IsRunMarker(rows, i)
       THEN LET inline == Strip(Replace(Upper(Cell(rows, i, 0)), <<"R","U","N"," ","I","D",":">>, <<>>))
            IN <<[row |-> i,
                  run_num_str |-> IF inline # <<>> THEN inline
                                  ELSE Strip(Cell(rows, i, 1)),
                  run_id_value |-> Cell(rows, i, 2)]>>
               \o RunDetailStarts(rows, i + 1)
       ELSE RunDetailStarts(rows, i + 1)

\* index (1-based) of the first run whose run_id is id, 0 if none
MatchingRun(runs, id) ==
  IF \E k \in 1..Len(runs) : runs[k].run_id = id
  THEN CHOOSE k \in 1..Len(runs) :
         runs[k].run_id = id /\ \A j \in 1..(k - 1) : runs[j].run_id # id
  ELSE 0

\* the chain with the notes branch moved behind the other labels
DetailRowNoNotesFirst(rows, r, run) ==
  LET col_a == Lower(Cell(rows, r, 0))
      val == Cell(rows, r, 2)
  IN IF StartsWith(col_a, <<"s","a","m","p","l","e"," ","s","e","t","u","p">>) THEN [run EXCEPT !.sample_setup = Some(val)]
     ELSE IF StartsWith(col_a, <<"b","a","t","c","h"," ","n","u","m","b","e","r">>) THEN [run EXCEPT !.batch_number = Some(val)]
     ELSE IF StartsWith(col_a, <<"v","i","d","e","o">>) THEN [run EXCEPT !.video_file = Some(val)]
     ELSE IF StartsWith(col_a, <<"r","e","p","o","r","t">>) THEN [run EXCEPT !.report_file = Some(val)]
     ELSE IF StartsWith(col_a, <<"s","e","q","u","e","n","c","e"," ","s","e","t","u","p">>)
     THEN [run EXCEPT !.sequence = Some(ParseSequenceSection(rows, r))]
     ELSE IF Contains(col_a, <<"n","o","t","e","s">>) /\ ~StartsWith(col_a, <<"r","u","n">>)
     THEN (IF run.run_notes = None \/ run.run_notes = Some(<<>>)
           THEN [run EXCEPT !.run_notes = Some(val)] ELSE run)
     ELSE run

\* the if/elif chain applied to the row r of a block
DetailRow(rows, r, run) ==
  LET col_a == Lower(Cell(rows, r, 0))
      val == Cell(rows, r, 2)
  IN IF StartsWith(col_a, <<"s","a","m","p","l","e"," ","s","e","t","u","p">>) THEN [run EXCEPT !.sample_setup = Some(val)]
     ELSE IF StartsWith(col_a, <<"b","a","t","c","h"," ","n","u","m","b","e","r">>) THEN [run EXCEPT !.batch_number = Some(val)]
     ELSE IF Contains(col_a, <<"n","o","t","e","s">>) /\ ~StartsWith(col_a, <<"r","u","n">>)
     THEN (IF run.run_notes = None \/ run.run_notes = Some(<<>>)
           THEN [run EXCEPT !.run_notes = Some(val)] ELSE run)
     ELSE IF StartsWith(col_a, <<"v","i","d","e","o">>) THEN [run EXCEPT !.video_file = Some(val)]
     ELSE IF StartsWith(col_a, <<"r","e","p","o","r","t">>) THEN [run EXCEPT !.report_file = Some(val)]
     ELSE IF StartsWith(col_a, <<"s","e","q","u","e","n","c","e"," ","s","e","t","u","p">>)
     THEN [run EXCEPT !.sequence = Some(ParseSequenceSection(rows, r))]
     ELSE run

\* for r in range(start_row + 1, end_row)
RECURSIVE DetailRows(_, _, _, _)
DetailRows(rows, r, end_row, run) ==
  IF r >= end_row THEN run
  ELSE DetailRows(rows, r + 1, end_row, DetailRow(rows, r, run))

BlockEnd(rows, starts, idx) ==
  IF idx + 1 <= Len(starts) THEN starts[idx + 1].row
  ELSE IF starts[idx].row + 100 < Len(rows) THEN starts[idx].row + 100 ELSE Len(rows)

\* the stub Run of a block that matches no table run: filled, then dropped
StubRun(rows, starts, idx) ==
  DetailRows(rows, starts[idx].row + 1, BlockEnd(rows, starts, idx),
             NewRun(IntOrZero(starts[idx].run_num_str), starts[idx].run_id_value,
                    NoCtValues, NoCtValues, <<>>))

\* the loop over the detail blocks, were the stub appended to the run list
RECURSIVE DetailBlocksKeepStub(_, _, _, _)
DetailBlocksKeepStub(rows, starts, idx, runs) ==
  IF idx > Len(starts) THEN runs
  ELSE LET k == MatchingRun(runs, starts[idx].run_id_value)
       IN DetailBlocksKeepStub(rows, starts, idx + 1,
            IF k = 0
            THEN (IF starts[idx].run_id_value # <<>>
                  THEN Append(runs, StubRun(rows, starts, idx)) ELSE runs)
            ELSE [runs EXCEPT ![k] =
                    DetailRows(rows, starts[idx].row + 1,
                               BlockEnd(rows, starts, idx), runs[k])])

\* the loop over the detail blocks (idx is 1-based)
RECURSIVE DetailBlocks(_, _, _, _)
DetailBlocks(rows, starts, idx, runs) ==
  IF idx > Len(starts) THEN runs
  ELSE LET k == MatchingRun(runs, starts[idx].run_id_value)
       IN DetailBlocks(rows, starts, idx + 1,
            IF k = 0 THEN runs
            ELSE [runs EXCEPT ![k] =
                    DetailRows(rows, starts[idx].row + 1,
                               BlockEnd(rows, starts, idx), runs[k])])

ParseRunDetails(rows, exp) ==
  [exp EXCEPT !.runs = DetailBlocks(rows, RunDetailStarts(rows, 0), 1, exp.runs)]

(***************************************************************************)
(* experiment_sheet.py: reagent formulations                               *)
(***************************************************************************)
IsReagentCell(val) == StartsWith(Lower(Strip(val)), <<"r","e","a","g","e","n","t">>)

IsAltReagentCell(val) ==
  LET v == Lower(Strip(val))
  IN Contains(v, <<"n","u","m","b","e","r"," ","o","f"," ","s","a","m","p","l","e","s">>) \/ Contains(v, <<"m","a","s","t","e","r"," ","m","i","x">>)

\* first column (0-based) of row i whose cell is a landmark of the kind, None if none
LandmarkCol(rows, i, alt) ==
  LET row == rows[i + 1]
      Hit(c) == IF alt THEN IsAltReagentCell(row[c + 1]) ELSE IsReagentCell(row[c + 1])
  IN IF \E c \in 0..(Len(row) - 1) : Hit(c)
     THEN Some(CHOOSE c \in 0..(Len(row) - 1) : Hit(c) /\ \A d \in 0..(c - 1) : ~Hit(d))
     ELSE None

\* the landmark search over the first five rows: None or [row, col]
RECURSIVE FindLandmark(_, _, _)
FindLandmark(rows, i, alt) ==
  IF i >= 5 \/ i >= Len(rows) THEN None
  ELSE LET c == LandmarkCol(rows, i, alt)
       IN IF c # None THEN Some([row |-> i, col |-> c[1]])
          ELSE FindLandmark(rows, i + 1, alt)

\* [c.strip().lower() for c in row if c.strip()]
RECURSIVE LowerNonBlank(_)
LowerNonBlank(row) ==
  IF row = <<>> THEN <<>>
  ELSE IF Strip(Head(row)) # <<>>
       THEN <<Lower(Strip(Head(row)))>> \o LowerNonBlank(Tail(row))
       ELSE LowerNonBlank(Tail(row))

IsPerChannel(rows, reagent_row) ==
  LET header_text == Join(LowerNonBlank(rows[reagent_row + 1]), <<" ">>)
  IN Contains(header_text, <<"c","h","a","n","n","e","l"," ","0">>) \/ Contains(header_text, <<"c","h","a","n","n","e","l"," ","1">>)

\* ReagentFormulation(channel=...): the data model's defaults
NewFormulation(channel) ==
  [channel |-> channel, num_samples |-> None, reagents |-> <<>>,
   total_volume_uL |-> None]

\* float(s) if s else 0, with the given value on ValueError
FloatOr(s, dflt) ==
  IF s = <<>> THEN Some(FloatZero)
  ELSE IF PyFloat(s) = None THEN dflt ELSE PyFloat(s)

IsVolumeHeader(val) ==
  LET v == Lower(Strip(val)) IN Contains(v, <<"v","o","l","u","m","e">>) \/ Contains(v, <<"u","l">>)

\* the volume-column search of the single list: rows i.., columns start_col..
RECURSIVE FindVolCol(_, _, _, _)
FindVolCol(rows, i, last, start_col) ==
  IF i >= last \/ i >= Len(rows) THEN None
  ELSE LET row == rows[i + 1]
           hi == IF start_col + 5 < Len(row) THEN start_col + 5 ELSE Len(row)
           Hit(c) == IsVolumeHeader(row[c + 1])
       IN IF \E c \in start_col..(hi - 1) : Hit(c)
          THEN Some(CHOOSE c \in start_col..(hi - 1) :
                      Hit(c) /\ \A d \in start_col..(c - 1) : ~Hit(d))
          ELSE FindVolCol(rows, i + 1, last, start_col)

\* the reagent loop, were the total row also appended as an item
RECURSIVE ReagentRowsKeepTotal(_, _, _, _, _, _, _, _)
ReagentRowsKeepTotal(rows, r, last, name_col, alt_col, vol_col, skip, f) ==
  IF r >= Len(rows) \/ r >= last THEN f
  ELSE LET n1 == Cell(rows, r, name_col)
           name == IF n1 = <<>> /\ alt_col >= 0 THEN Cell(rows, r, alt_col) ELSE n1
           vol_str == Cell(rows, r, vol_col)
           item == [name |-> name, volume_uL |-> FloatOr(vol_str, Some(FloatZero))[1]]
           g == IF name # <<>> /\ Lower(name) \notin skip
                THEN [f EXCEPT !.reagents = Append(@, item)] ELSE f
       IN IF name = <<>> /\ vol_str = <<>>
          THEN ReagentRowsKeepTotal(rows, r + 1, last, name_col, alt_col, vol_col, skip, f)
          ELSE IF StartsWith(Lower(name), <<"t","o","t","a","l">>)
          THEN [g EXCEPT !.total_volume_uL = FloatOr(vol_str, f.total_volume_uL)]
          ELSE ReagentRowsKeepTotal(rows, r + 1, last, name_col, alt_col, vol_col, skip, g)

\* the while loop over the reagent rows of one name/volume column pair;
\* alt_col is the fallback name column (-1: none), skip the excluded names
RECURSIVE ReagentRows(_, _, _, _, _, _, _, _)
ReagentRows(rows, r, last, name_col, alt_col, vol_col, skip, f) ==
  IF r >= Len(rows) \/ r >= last THEN f
  ELSE LET n1 == Cell(rows, r, name_col)
           name == IF n1 = <<>> /\ alt_col >= 0 THEN Cell(rows, r, alt_col) ELSE n1
           vol_str == Cell(rows, r, vol_col)
           item == [name |-> name, volume_uL |-> FloatOr(vol_str, Some(FloatZero))[1]]
       IN IF name = <<>> /\ vol_str = <<>>
          THEN ReagentRows(rows, r + 1, last, name_col, alt_col, vol_col, skip, f)
          ELSE IF StartsWith(Lower(name), <<"t","o","t","a","l">>)
          THEN [f EXCEPT !.total_volume_uL = FloatOr(vol_str, f.total_volume_uL)]
          ELSE ReagentRows(rows, r + 1, last, name_col, alt_col, vol_col, skip,
                 IF name # <<>> /\ Lower(name) \notin skip
                 THEN [f EXCEPT !.reagents = Append(@, item)] ELSE f)

SingleListVolCol(rows, start_row, start_col) ==
  LET v == FindVolCol(rows, start_row, start_row + 5, start_col)
  IN IF v = None THEN start_col + 3 ELSE v[1]

SingleListNameCol(rows, start_row, start_col) ==
  IF start_col + 1 < SingleListVolCol(rows, start_row, start_col)
  THEN start_col + 1 ELSE start_col

ParseSingleReagentList(rows, start_row, start_col, exp) ==
  LET f == ReagentRows(rows, start_row + 2, start_row + 25,
                       SingleListNameCol(rows, start_row, start_col), start_col,
                       SingleListVolCol(rows, start_row, start_col),
                       {<<"r","e","a","g","e","n","t">>, <<"r","e","a","g","e","n","t"," ","d","e","s","c","r","i","p","t","i","o","n">>},
                       NewFormulation(None))
  IN IF f.reagents # <<>>
     THEN [exp EXCEPT !.reagent_formulations = Append(@, f)] ELSE exp

\* channel_starts: the columns of the header row that open a channel group
RECURSIVE ChannelStarts(_, _, _, _)
ChannelStarts(rows, start_row, c, hi) ==
  IF c >= hi THEN <<>>
  ELSE LET val == Lower(Cell(rows, start_row, c))
       IN (IF StartsWith(val, <<"c","h","a","n","n","e","l">>) \/ Contains(val, <<"n","u","m","b","e","r"," ","o","f"," ","s","a","m","p","l","e","s">>)
           THEN <<c>> ELSE <<>>) \o ChannelStarts(rows, start_row, c + 1, hi)

\* the formulation of the channel group that starts at column ch_col
ChannelFormulation(rows, start_row, ch_idx, ch_col) ==
  LET num_samples_str == IF start_row + 1 < Len(rows)
                         THEN Cell(rows, start_row + 1, ch_col + 1) ELSE <<>>
      f0 == [NewFormulation(Some(ch_idx)) EXCEPT
               !.num_samples = IF num_samples_str = <<>> THEN None
                               ELSE PyInt(num_samples_str)]
  IN ReagentRows(rows, start_row + 3, start_row + 25, ch_col, -1, ch_col + 1, {}, f0)

\* the loop over the channel groups (i is 1-based, ch_idx = i - 1)
RECURSIVE ChannelGroups(_, _, _, _, _)
ChannelGroups(rows, start_row, starts, i, acc) ==
  IF i > Len(starts) THEN acc
  ELSE LET f == ChannelFormulation(rows, start_row, i - 1, starts[i])
       IN ChannelGroups(rows, start_row, starts, i + 1,
                        IF f.reagents # <<>> THEN Append(acc, f) ELSE acc)

ParsePerChannelReagents(rows, start_row, start_col, exp) ==
  LET width == IF start_row < Len(rows) THEN Len(rows[start_row + 1]) ELSE 0
      hi == IF start_col + 30 < width THEN start_col + 30 ELSE width
      starts == ChannelStarts(rows, start_row, start_col, hi)
  IN [exp EXCEPT !.reagent_formulations =
        ChannelGroups(rows, start_row, starts, 1, @)]

ParseReagents(rows, exp) ==
  LET l1 == FindLandmark(rows, 0, FALSE)
      lm == IF l1 # None THEN l1 ELSE FindLandmark(rows, 0, TRUE)
  IN IF lm = None THEN exp
     ELSE IF IsPerChannel(rows, lm[1].row)
          THEN ParsePerChannelReagents(rows, lm[1].row, lm[1].col, exp)
          ELSE ParseSingleReagentList(rows, lm[1].row, lm[1].col, exp)

(***************************************************************************)
(* experiment_sheet.py: the two entry points as functions of their input   *)
(***************************************************************************)
\* the channel and Ct table passes, run when the anchor row is found
TablePasses(rows, exp) ==
  IF FindCtTableStart(rows) # None
  THEN ParseCtTable(rows, FindCtTableStart(rows)[1],
                    ParseChannelAssignments(rows, FindCtTableStart(rows)[1], exp))
  ELSE exp

\* the passes over the grid, in the order of the calls
GridPasses(rows, exp) ==
  ParseReagents(rows, ParseRunDetails(rows, TablePasses(rows, ParseHeaderMetadata(rows, exp))))

\* Experiment(source_file=...) with the date of the file name
DatedExperiment(source_name) ==
  [NewExperiment(source_name) EXCEPT
     !.experiment_date = ExtractDateFromFilename(source_name)]

\* parse_experiment_grid(rows, source_name)
ParseExperimentGrid(rows, source_name) ==
  GridPasses(rows, DatedExperiment(source_name))

\* parse_experiment_csv on a file named name whose rows are rows: the early
\* return on no rows comes before the date is read from the name
ParseExperimentCsv(rows, name) ==
  IF rows = <<>> THEN NewExperiment(name)
  ELSE GridPasses(rows, DatedExperiment(name))

(***************************************************************************)
(* goals.py: one goal of parse_goals_grid                                  *)
(***************************************************************************)
\* _cell(row, idx) of goals.py
GCell(row, idx) ==
  IF idx < 0 \/ idx >= Len(row) THEN <<>> ELSE Strip(row[idx + 1])

\* row[idx] is evaluated by the _cell of goals.py and raises IndexError
GCellRaises(row, idx) ==
  ~(idx < 0 \/ idx >= Len(row)) /\ PyItem(row, idx) = None

GoalSkipNames == {<<"h","i","g","h">>, <<"l","o","w">>, <<"i","n","d","i","v","i","d","u","a","l"," ","%"," ","c","h","e","c","k",":">>}

GoalDenyNames == {<<"t","o","t","a","l">>, <<"s","t","a","m","p","e","d","e"," ","/"," ","d","i","s","c","o","p","l","e","x">>, <<"s","t","a","m","p","e","d","e">>}

\* a row that the outer loop steps over without opening a goal
IsGoalSkipRow(row) ==
  LET short_name == Strip(GCell(row, 1))
  IN \/ short_name = <<>>
     \/ Lower(short_name) \in GoalSkipNames
     \/ StartsWith(Lower(short_name), <<"a","c","t","i","v","e"," ","g","o","a","l">>)
     \/ Contains(short_name, <<"/">>)

\* a continuation loop in which every row that supplies points or a due date
\* overwrites the value held so far
RECURSIVE GoalContinuationLastWins(_, _)
GoalContinuationLastWins(rows, acc) ==
  IF acc.j >= Len(rows) THEN acc
  ELSE LET row == rows[acc.j + 1]
           req_text == GCell(row, 3)
       IN IF Strip(GCell(row, 1)) # <<>> THEN acc
          ELSE GoalContinuationLastWins(rows,
                 [j |-> acc.j + 1,
                  requirements_lines |-> IF req_text # <<>>
                                         THEN Append(acc.requirements_lines, req_text)
                                         ELSE acc.requirements_lines,
                  points_str |-> IF GCell(row, 4) # <<>> THEN GCell(row, 4)
                                 ELSE acc.points_str,
                  due_date |-> IF GCell(row, 6) # <<>> THEN GCell(row, 6)
                               ELSE acc.due_date])

\* the inner while loop over the continuation rows j.. of the goal opened at
\* row i: acc = [j, requirements_lines, points_str, due_date]
RECURSIVE GoalContinuation(_, _)
GoalContinuation(rows, acc) ==
  IF acc.j >= Len(rows) THEN acc
  ELSE LET row == rows[acc.j + 1]
           req_text == GCell(row, 3)
       IN IF Strip(GCell(row, 1)) # <<>> THEN acc
          ELSE GoalContinuation(rows,
                 [j |-> acc.j + 1,
                  requirements_lines |-> IF req_text # <<>>
                                         THEN Append(acc.requirements_lines, req_text)
                                         ELSE acc.requirements_lines,
                  points_str |-> IF acc.points_str = <<>> THEN GCell(row, 4)
                                 ELSE acc.points_str,
                  due_date |-> IF acc.due_date = <<>> THEN GCell(row, 6)
                               ELSE acc.due_date])

GoalScan(rows, i) ==
  GoalContinuation(rows, [j |-> i + 1,
                          requirements_lines |-> <<GCell(rows[i + 1], 3)>>,
                          points_str |-> GCell(rows[i + 1], 4),
                          due_date |-> GCell(rows[i + 1], 6)])

\* how many digits start s
RECURSIVE LeadingDigitRun(_)
LeadingDigitRun(s) ==
  IF s # <<>> /\ IsDigitC(Head(s)) THEN 1 + LeadingDigitRun(Tail(s)) ELSE 0

\* a lenient reading of the points: the digits that start the text
GoalPointsLeadingDigits(points_str) ==
  IF LeadingDigitRun(points_str) = 0 THEN 0
  ELSE DigitsVal(SubSeq(points_str, 1, LeadingDigitRun(points_str)))

\* int(points_str) if points_str else 0, 0 on ValueError
GoalPoints(points_str) == IntOrZero(points_str)

\* Goal(...) built for the goal opened at row i
GoalAt(rows, i) ==
  LET row == rows[i + 1]
      sc == GoalScan(rows, i)
  IN [short_name |-> Strip(GCell(row, 1)),
      requirements |-> Join(SelectNonEmpty(sc.requirements_lines), <<"\n">>),
      points |-> GoalPoints(sc.points_str),
      sign_off |-> GCell(row, 5),
      due_date |-> sc.due_date,
      goal_type |-> GCell(row, 7)]

(***************************************************************************)
(* journal.py: date boundaries, entry clean-up                             *)
(***************************************************************************)
MONTHS == <<<<"j","a","n","u","a","r","y">>, <<"f","e","b","r","u","a","r","y">>, <<"m","a","r","c","h">>, <<"a","p","r","i","l">>, <<"m","a","y">>, <<"j","u","n","e">>, <<"j","u","l","y">>,
            <<"a","u","g","u","s","t">>, <<"s","e","p","t","e","m","b","e","r">>, <<"o","c","t","o","b","e","r">>, <<"n","o","v","e","m","b","e","r">>, <<"d","e","c","e","m","b","e","r">>>>

\* strptime's %m, %d and %Y on a digit run matched by \d{1,2} or \d{4}:
\* the calendar check is that of datetime
NumericDate(ytxt, mtxt, dtxt) ==
  IF DigitsVal(mtxt) >= 1 /\ DigitsVal(dtxt) >= 1
  THEN PyDate(DigitsVal(ytxt), DigitsVal(mtxt), DigitsVal(dtxt))
  ELSE None

IsDigitRun(s, lo, hi) == Len(s) >= lo /\ Len(s) <= hi /\ AllDigits(s)

\* \d{1,2}<sep>\d{1,2}<sep>\d{4} on the pieces between the separators
IsMDYParts(p) ==
  Len(p) = 3 /\ IsDigitRun(p[1], 1, 2) /\ IsDigitRun(p[2], 1, 2)
  /\ IsDigitRun(p[3], 4, 4)

\* \d{4}-\d{2}-\d{2} on the pieces between the dashes
IsISOParts(p) ==
  Len(p) = 3 /\ IsDigitRun(p[1], 4, 4) /\ IsDigitRun(p[2], 2, 2)
  /\ IsDigitRun(p[3], 2, 2)

\* ^(\d{1,2}<sep>\d{1,2}<sep>\d{4})\s*$
MatchMDY(text, sep) == IsMDYParts(Split(text, sep))

\* ^(\d{4}-\d{2}-\d{2})\s*$
MatchISO(text) == IsISOParts(Split(text, "-"))

MDYPartsDate(p) == NumericDate(p[3], p[1], p[2])

ISOPartsDate(p) == NumericDate(p[1], p[2], p[3])

\* a numeric pattern and its strptime with %m<sep>%d<sep>%Y
DateMDY(text, sep) ==
  IF MatchMDY(text, sep) THEN MDYPartsDate(Split(text, sep)) ELSE None

\* the ISO pattern and its strptime with %Y-%m-%d
DateISO(text) ==
  IF MatchISO(text) THEN ISOPartsDate(Split(text, "-")) ELSE None

\* the month (1..12) whose full name starts the lower-cased text; 0 if none
MonthPrefix(lo) ==
  LET hits == {m \in 1..12 : StartsWith(lo, MONTHS[m])}
  IN IF hits = {} THEN 0 ELSE CHOOSE m \in hits : TRUE

\* how many characters \d{1,2} takes at the start of s
LeadDigits(s) ==
  IF s # <<>> /\ IsDigitC(s[1])
  THEN (IF Len(s) >= 2 /\ IsDigitC(s[2]) THEN 2 ELSE 1)
  ELSE 0

\* ,?
DropComma(s) == IF s # <<>> /\ s[1] = "," THEN Tail(s) ELSE s

\* \s+\d{4} on what follows the day, then strptime with %B %d %Y
MonthNameYear(m, day, r3) ==
  IF LStrip(r3) # r3 /\ IsDigitRun(LStrip(r3), 4, 4) /\ DigitsVal(day) >= 1
  THEN PyDate(DigitsVal(LStrip(r3)), m, DigitsVal(day))
  ELSE None

\* \d{1,2},? on what follows the month and its spaces
MonthNameDay(m, r1, nd) ==
  IF nd >= 1
  THEN MonthNameYear(m, SubSeq(r1, 1, nd), DropComma(SubSeq(r1, nd + 1, Len(r1))))
  ELSE None

\* \s+ on what follows the month name
MonthNameRest(m, rest) ==
  IF LStrip(rest) # rest
  THEN MonthNameDay(m, LStrip(rest), LeadDigits(LStrip(rest)))
  ELSE None

\* (Month)\s+\d{1,2},?\s+\d{4} and its strptime
DateMonthName(text, m) ==
  IF m # 0
  THEN MonthNameRest(m, SubSeq(text, Len(MONTHS[m]) + 1, Len(text)))
  ELSE None

FirstSome(a, b) == IF a # None THEN a ELSE b

\* a date parser that knows the four shapes but not the calendar
TryParseDateNoCalendar(text) ==
  IF MatchMDY(text, "/") \/ MatchISO(text) \/ MatchMDY(text, "-")
  THEN Some([y |-> 1, m |-> 1, d |-> 1])
  ELSE None

\* Optional[date]: the four DATE_PATTERNS in order; a pattern whose text
\* strptime rejects falls through to the next
TryParseDate(text) ==
  FirstSome(DateMDY(text, "/"),
    FirstSome(DateISO(text),
      FirstSome(DateMonthName(text, MonthPrefix(Lower(text))),
                DateMDY(text, "-"))))

\* PLACEHOLDER_PATTERN.sub("", content): drops every [x], x in a..z
RECURSIVE StripPlaceholders(_)
StripPlaceholders(s) ==
  IF s = <<>> THEN <<>>
  ELSE IF Len(s) >= 3 /\ s[1] = "[" /\ IsLowerC(s[2]) /\ s[3] = "]"
       THEN StripPlaceholders(SubSeq(s, 4, Len(s)))
       ELSE <<Head(s)>> \o StripPlaceholders(Tail(s))

\* number of "\n" that start s
RECURSIVE NewlineRun(_)
NewlineRun(s) == IF s # <<>> /\ Head(s) = "\n" THEN 1 + NewlineRun(Tail(s)) ELSE 0

\* re.sub(r"\n{3,}", "\n\n", content)
RECURSIVE CollapseBlankLines(_)
CollapseBlankLines(s) ==
  IF s = <<>> THEN <<>>
  ELSE LET n == NewlineRun(s)
       IN IF n >= 3 THEN <<"\n", "\n">> \o CollapseBlankLines(SubSeq(s, n + 1, Len(s)))
          ELSE IF n >= 1 THEN SubSeq(s, 1, n) \o CollapseBlankLines(SubSeq(s, n + 1, Len(s)))
          ELSE <<Head(s)>> \o CollapseBlankLines(Tail(s))

\* an entry whose content is joined but not cleaned
BuildEntryUntrimmed(entry_date, date_str, author, content_lines, source) ==
  [entry_date |-> entry_date, date_str |-> date_str, author |-> author,
   content |-> Join(content_lines, <<"\n">>), source_file |-> source]

\* _build_entry: placeholders dropped, blank runs collapsed, content stripped
BuildEntry(entry_date, date_str, author, content_lines, source_name) ==
  [entry_date |-> entry_date, date_str |-> date_str, author |-> author,
   content |-> Strip(CollapseBlankLines(StripPlaceholders(Join(content_lines, <<"\n">>)))),
   source_file |-> source_name]

\* str.istitle()
RECURSIVE IsTitleFrom(_, _, _)
IsTitleFrom(s, prev_cased, cased) ==
  IF s = <<>> THEN cased
  ELSE IF IsUpperC(Head(s))
       THEN (IF prev_cased THEN FALSE ELSE IsTitleFrom(Tail(s), TRUE, TRUE))
       ELSE IF IsLowerC(Head(s))
            THEN (IF ~prev_cased THEN FALSE ELSE IsTitleFrom(Tail(s), TRUE, TRUE))
            ELSE IsTitleFrom(Tail(s), FALSE, cased)

IsTitle(s) == IsTitleFrom(s, FALSE, FALSE)

\* the author-line test that follows a date boundary
LooksLikeAuthor(stripped) ==
  Len(stripped) < 40 /\ ~StartsWith(stripped, <<"*">>) /\ ~StartsWith(stripped, <<"-">>)

\* the embedded-author test on a line, given the buffered content lines
IsEmbeddedAuthor(stripped, content_lines) ==
  /\ stripped # <<>>
  /\ Len(stripped) < 30
  /\ ~StartsWith(stripped, <<"*">>)
  /\ ~StartsWith(stripped, <<"-">>)
  /\ ~StartsWith(stripped, <<"#">>)
  /\ ~\E i \in 1..Len(stripped) : IsDigitC(stripped[i])
  /\ IsTitle(stripped)
  /\ ~Contains(Strip(stripped), <<" ">>)
  /\ Len(content_lines) > 0
  /\ Strip(content_lines[Len(content_lines)]) = <<>>

(***************************************************************************)
(* experiment_sheet.py: experiment_to_summary_text, the Ct table           *)
(***************************************************************************)
\* str(n) of a natural number
RECURSIVE NatStr(_)
NatStr(n) ==
  IF n < 10 THEN <<DIGITS[n + 1]>> ELSE NatStr(n \div 10) \o <<DIGITS[(n % 10) + 1]>>

\* str(n) of an int
IntStr(n) == IF n < 0 THEN <<"-">> \o NatStr(0 - n) ELSE NatStr(n)

RECURSIVE Pow10(_)
Pow10(k) == IF k <= 0 THEN 1 ELSE 10 * Pow10(k - 1)

\* mant * 10^exp in hundredths, rounded to the nearest (a tie, which the
\* binary float decides in the source, goes to the even neighbour)
Hundredths(mant, exp) ==
  IF exp >= 0 - 2 THEN mant * Pow10(exp + 2)
  ELSE LET den == Pow10(0 - 2 - exp)
           q == mant \div den
           twice == 2 * (mant % den)
       IN IF twice > den \/ (twice = den /\ q % 2 = 1) THEN q + 1 ELSE q

\* f"{v:.2f}"
FormatFixed2(v) ==
  IF v.kind = "nan" THEN <<"n","a","n">>
  ELSE (IF v.neg THEN <<"-">> ELSE <<>>)
       \o (IF v.kind = "inf" THEN <<"i","n","f">>
           ELSE NatStr(Hundredths(v.mant, v.exp) \div 100) \o <<".">>
                \o <<DIGITS[((Hundredths(v.mant, v.exp) \div 10) % 10) + 1],
                     DIGITS[(Hundredths(v.mant, v.exp) % 10) + 1]>>)

\* fmt that prints a zero like a missing value
FmtZeroAsDash(v) ==
  IF v = None \/ FloatEq(v[1], FloatZero) THEN <<"-">> ELSE FormatFixed2(v[1])

\* fmt(v) of experiment_to_summary_text
Fmt(v) ==
  IF v = None THEN <<"-">>
  ELSE IF FloatEq(v[1], FloatZero) THEN <<"0",".","0","0">>
       ELSE FormatFixed2(v[1])

\* the cells of the table line of one run, which the source joins with " | "
CtLine(run) ==
  <<IntStr(run.trial_num), run.run_id>>
  \o [k \in 1..5 |-> Fmt(run.ct_fam[k])]
  \o [k \in 1..5 |-> Fmt(run.ct_rox[k])]
  \o <<run.notes>>

\* the Ct table of the summary: one line per run, none without runs
SummaryCtTable(e) == [k \in 1..Len(e.runs) |-> CtLine(e.runs[k])]

(***************************************************************************)
(* experiment_sheet.py: the calls that can raise, and their handlers       *)
(***************************************************************************)
\* a handler table without the try of _extract_date_from_filename
HandlersNoDate ==
  [date |-> {}, trial |-> {"ValueError"}, ct |-> {"ValueError"},
   run_num |-> {"ValueError"}, total |-> {"ValueError"},
   volume |-> {"ValueError"}, num_samples |-> {"ValueError"}]

\* the except clause around each raising call: date(...), int(trial_str),
\* float(val), int(run_num_str), float(vol_str) of a total row and of an
\* item row, int(num_samples_str)
Handlers ==
  [date |-> {"ValueError"}, trial |-> {"ValueError"}, ct |-> {"ValueError"},
   run_num |-> {"ValueError"}, total |-> {"ValueError"},
   volume |-> {"ValueError"}, num_samples |-> {"ValueError"}]

\* some call of the set raises a ValueError that its handler does not catch
Escapes(sites) == \E s \in sites : "ValueError" \notin Handlers[s]

\* date(...) raises on the matched digits
DateSites(f) ==
  IF (\E i \in 1..Len(f) : DatePatternAt(f, i)) /\ ExtractDateFromFilename(f) = None
  THEN {"date"} ELSE {}

\* the columns _parse_ct_table reads
CtTableCols(rows, ct_table_row) ==
  LET header_main == IF ct_table_row < Len(rows) THEN rows[ct_table_row + 1] ELSE <<>>
      trial_col == LastCol(header_main, 0, "trial", None)
      runid_col == LastCol(header_main, 0, "runid", None)
  IN [fam_start |-> FindCtColumns(rows, ct_table_row).fam_start,
      rox_start |-> FindCtColumns(rows, ct_table_row).rox_start,
      trial_col |-> IF trial_col = None THEN 2 ELSE trial_col[1],
      runid_col |-> IF runid_col = None THEN 3 ELSE runid_col[1]]

\* float(val) raises in _parse_ct_value
CtValueRaises(val) ==
  Strip(val) # <<>> /\ Strip(val) # <<"-">> /\ PyFloat(Strip(val)) = None

\* the raising calls of the table row r
CtRowSites(rows, r, cols) ==
  (IF Cell(rows, r, cols.trial_col) # <<>> /\ PyInt(Cell(rows, r, cols.trial_col)) = None
   THEN {"trial"} ELSE {})
  \cup (IF \E k \in 0..4 : \/ CtValueRaises(Cell(rows, r, cols.fam_start + k))
                           \/ CtValueRaises(Cell(rows, r, cols.rox_start + k))
        THEN {"ct"} ELSE {})

\* the raising calls of the table pass: those of the rows that give a Run
CtTableSites(rows, ct_table_row) ==
  UNION {CtRowSites(rows, r, CtTableCols(rows, ct_table_row)) :
           r \in {q \in (ct_table_row + 2)..(ct_table_row + 14) :
                    /\ q < Len(rows)
                    /\ Cell(rows, q, CtTableCols(rows, ct_table_row).runid_col) # <<>>}}

\* int(run_num_str) raises while the stub of an unmatched block is built
DetailSites(rows, runs) ==
  LET starts == RunDetailStarts(rows, 0)
  IN IF \E idx \in 1..Len(starts) :
          /\ MatchingRun(runs, starts[idx].run_id_value) = 0
          /\ starts[idx].run_id_value # <<>>
          /\ starts[idx].run_num_str # <<>>
          /\ PyInt(starts[idx].run_num_str) = None
     THEN {"run_num"} ELSE {}

\* the raising calls of the reagent loop over one name/volume column pair
RECURSIVE ReagentRowSites(_, _, _, _, _, _)
ReagentRowSites(rows, r, last, name_col, alt_col, vol_col) ==
  IF r >= Len(rows) \/ r >= last THEN {}
  ELSE LET n1 == Cell(rows, r, name_col)
           name == IF n1 = <<>> /\ alt_col >= 0 THEN Cell(rows, r, alt_col) ELSE n1
           vol_str == Cell(rows, r, vol_col)
           bad == vol_str # <<>> /\ PyFloat(vol_str) = None
       IN IF name = <<>> /\ vol_str = <<>>
          THEN ReagentRowSites(rows, r + 1, last, name_col, alt_col, vol_col)
          ELSE IF StartsWith(Lower(name), <<"t","o","t","a","l">>)
          THEN (IF bad THEN {"total"} ELSE {})
          ELSE (IF bad THEN {"volume"} ELSE {})
               \cup ReagentRowSites(rows, r + 1, last, name_col, alt_col, vol_col)

SingleListSites(rows, start_row, start_col) ==
  ReagentRowSites(rows, start_row + 2, start_row + 25,
                  SingleListNameCol(rows, start_row, start_col), start_col,
                  SingleListVolCol(rows, start_row, start_col))

\* the raising calls of the channel group that starts at column ch_col
ChannelSites(rows, start_row, ch_col) ==
  (IF /\ start_row + 1 < Len(rows)
      /\ Cell(rows, start_row + 1, ch_col + 1) # <<>>
      /\ PyInt(Cell(rows, start_row + 1, ch_col + 1)) = None
   THEN {"num_samples"} ELSE {})
  \cup ReagentRowSites(rows, start_row + 3, start_row + 25, ch_col, -1, ch_col + 1)

PerChannelSites(rows, start_row, start_col) ==
  LET width == IF start_row < Len(rows) THEN Len(rows[start_row + 1]) ELSE 0
      hi == IF start_col + 30 < width THEN start_col + 30 ELSE width
      starts == ChannelStarts(rows, start_row, start_col, hi)
  IN UNION {ChannelSites(rows, start_row, starts[i]) : i \in 1..Len(starts)}

ReagentSites(rows) ==
  LET l1 == FindLandmark(rows, 0, FALSE)
      lm == IF l1 # None THEN l1 ELSE FindLandmark(rows, 0, TRUE)
  IN IF lm = None THEN {}
     ELSE IF IsPerChannel(rows, lm[1].row)
          THEN PerChannelSites(rows, lm[1].row, lm[1].col)
          ELSE SingleListSites(rows, lm[1].row, lm[1].col)

(***************************************************************************)
(* State.  One extractor runs per behaviour (prog); it is called twice on  *)
(* the same input (call), the first result being kept in prev.             *)
(***************************************************************************)
VARIABLES
  prog,                  \* "exp", "goals", "journal" or "cell"
  pc,                    \* position inside the running call; "error" when
                         \* an exception has left the extractor
  call,                  \* 1 or 2
  prev,                  \* None, or Some(result of call 1)
  rows,                  \* the grid handed to the grid extractors
  source_name,
  text,                  \* the journal text
  exp,                   \* parse_experiment_grid: exp
  ct_table_row,          \* parse_experiment_grid: ct_table_row
  goals,                 \* parse_goals_grid: goals
  g_i,                   \* parse_goals_grid: i
  lines,                 \* _parse_journal_text: lines
  l_idx,                 \* _parse_journal_text: number of lines consumed
  entries,               \* _parse_journal_text: entries
  current_date,
  current_date_str,
  current_author,
  current_content_lines,
  collecting_content,
  cell_call,             \* None, or Some(a finished call of _cell)
  summary                \* experiment_to_summary_text: the Ct table lines

inputVars == <<prog, rows, source_name, text>>

expVars == <<exp, ct_table_row>>

goalVars == <<goals, g_i>>

journalVars == <<lines, l_idx, entries, current_date, current_date_str,
                 current_author, current_content_lines, collecting_content>>

vars == <<prog, pc, call, prev, rows, source_name, text, exp, ct_table_row,
          goals, g_i, lines, l_idx, entries, current_date, current_date_str,
          current_author, current_content_lines, collecting_content,
          cell_call, summary>>

(***************************************************************************)
(* parse_experiment_grid, one action per pass                              *)
(***************************************************************************)
\* exp = Experiment(source_file=source_name); exp.experiment_date = ...
ExpBegin ==
  /\ prog = "exp" /\ pc = "call"
  /\ exp' = [NewExperiment(source_name) EXCEPT
               !.experiment_date = ExtractDateFromFilename(source_name)]
  /\ ct_table_row' = None
  /\ pc' = IF Escapes(DateSites(source_name)) THEN "error" ELSE "header"
  /\ UNCHANGED <<inputVars, cell_call, summary, call, prev, goalVars, journalVars>>

ExpHeader ==
  /\ prog = "exp" /\ pc = "header"
  /\ exp' = ParseHeaderMetadata(rows, exp)
  /\ pc' = "anchor"
  /\ UNCHANGED <<inputVars, cell_call, summary, call, prev, ct_table_row, goalVars, journalVars>>

\* ct_table_row = _find_ct_table_start(rows); the table passes are skipped
\* when it is None
ExpFindAnchor ==
  /\ prog = "exp" /\ pc = "anchor"
  /\ ct_table_row' = FindCtTableStart(rows)
  /\ pc' = IF FindCtTableStart(rows) # None THEN "channels" ELSE "details"
  /\ UNCHANGED <<inputVars, cell_call, summary, call, prev, exp, goalVars, journalVars>>

ExpChannels ==
  /\ prog = "exp" /\ pc = "channels"
  /\ exp' = ParseChannelAssignments(rows, ct_table_row[1], exp)
  /\ pc' = "ct"
  /\ UNCHANGED <<inputVars, cell_call, summary, call, prev, ct_table_row, goalVars, journalVars>>

ExpCtTable ==
  /\ prog = "exp" /\ pc = "ct"
  /\ exp' = ParseCtTable(rows, ct_table_row[1], exp)
  /\ pc' = IF Escapes(CtTableSites(rows, ct_table_row[1])) THEN "error" ELSE "details"
  /\ UNCHANGED <<inputVars, cell_call, summary, call, prev, ct_table_row, goalVars, journalVars>>

ExpDetails ==
  /\ prog = "exp" /\ pc = "details"
  /\ exp' = ParseRunDetails(rows, exp)
  /\ pc' = IF Escapes(DetailSites(rows, exp.runs)) THEN "error" ELSE "reagents"
  /\ UNCHANGED <<inputVars, cell_call, summary, call, prev, ct_table_row, goalVars, journalVars>>

\* _parse_reagents(rows, exp); return exp
ExpReagents ==
  /\ prog = "exp" /\ pc = "reagents"
  /\ exp' = ParseReagents(rows, exp)
  /\ pc' = IF Escapes(ReagentSites(rows)) THEN "error" ELSE "done"
  /\ UNCHANGED <<inputVars, cell_call, summary, call, prev, ct_table_row, goalVars, journalVars>>

\* experiment_to_summary_text(exp) on the Experiment that was returned
ExpSummary ==
  /\ prog = "exp" /\ pc = "done"
  /\ summary' = SummaryCtTable(exp)
  /\ pc' = "summarised"
  /\ UNCHANGED <<inputVars, cell_call, call, prev, expVars, goalVars, journalVars>>

(***************************************************************************)
(* parse_experiment_csv on a file that _read_csv has read into rows         *)
(***************************************************************************)
\* if not rows: return Experiment(source_file=filepath.name)
CsvNoRows ==
  /\ prog = "csv" /\ pc = "call" /\ rows = <<>>
  /\ exp' = ParseExperimentCsv(rows, source_name)
  /\ pc' = "done"
  /\ UNCHANGED <<inputVars, cell_call, summary, call, prev, ct_table_row, goalVars, journalVars>>

\* the date, then the passes; return exp
CsvParse ==
  /\ prog = "csv" /\ pc = "call" /\ rows # <<>>
  /\ exp' = ParseExperimentCsv(rows, source_name)
  /\ pc' = "done"
  /\ UNCHANGED <<inputVars, cell_call, summary, call, prev, ct_table_row, goalVars, journalVars>>

(***************************************************************************)
(* parse_goals_grid, one action per iteration of the outer loop            *)
(***************************************************************************)
\* goals = []: the list a call starts with, given the one left in memory
FreshGoals(old) == <<>>

GoalsBegin ==
  /\ prog = "goals" /\ pc = "call"
  /\ goals' = FreshGoals(goals)
  /\ g_i' = 0
  /\ pc' = "loop"
  /\ UNCHANGED <<inputVars, cell_call, summary, call, prev, expVars, journalVars>>

\* a row stepped over: i += 1
GoalsSkipRow ==
  /\ prog = "goals" /\ pc = "loop" /\ g_i < Len(rows)
  /\ IsGoalSkipRow(rows[g_i + 1])
  /\ g_i' = g_i + 1
  /\ UNCHANGED <<inputVars, cell_call, summary, pc, call, prev, expVars, goals, journalVars>>

\* a goal row with its continuation rows: the Goal is appended; i = j
GoalsEmit ==
  /\ prog = "goals" /\ pc = "loop" /\ g_i < Len(rows)
  /\ ~IsGoalSkipRow(rows[g_i + 1])
  /\ Lower(Strip(GCell(rows[g_i + 1], 1))) \notin GoalDenyNames
  /\ goals' = Append(goals, GoalAt(rows, g_i))
  /\ g_i' = GoalScan(rows, g_i).j
  /\ UNCHANGED <<inputVars, cell_call, summary, pc, call, prev, expVars, journalVars>>

\* a denylisted name: the rows are consumed, no Goal is appended; i = j
GoalsDiscard ==
  /\ prog = "goals" /\ pc = "loop" /\ g_i < Len(rows)
  /\ ~IsGoalSkipRow(rows[g_i + 1])
  /\ Lower(Strip(GCell(rows[g_i + 1], 1))) \in GoalDenyNames
  /\ g_i' = GoalScan(rows, g_i).j
  /\ UNCHANGED <<inputVars, cell_call, summary, pc, call, prev, expVars, goals, journalVars>>

\* return goals
GoalsReturn ==
  /\ prog = "goals" /\ pc = "loop" /\ g_i >= Len(rows)
  /\ pc' = "done"
  /\ UNCHANGED <<inputVars, cell_call, summary, call, prev, expVars, goalVars, journalVars>>

(***************************************************************************)
(* _parse_journal_text, one action per line                                *)
(***************************************************************************)
\* a call that goes on with the list left in memory
FreshEntriesStale(old) == old

\* entries = []: the list a call starts with, given the one left in memory
FreshEntries(old) == <<>>

JournalBegin ==
  /\ prog = "journal" /\ pc = "call"
  /\ lines' = Split(text, "\n")
  /\ l_idx' = 0
  /\ entries' = FreshEntries(entries)
  /\ current_date' = None
  /\ current_date_str' = <<>>
  /\ current_author' = <<>>
  /\ current_content_lines' = <<>>
  /\ collecting_content' = FALSE
  /\ pc' = "loop"
  /\ UNCHANGED <<inputVars, cell_call, summary, call, prev, expVars, goalVars>>

\* the line the loop is at
CurLine == RStrip(lines[l_idx + 1])

AtLine == prog = "journal" /\ pc = "loop" /\ l_idx < Len(lines)

\* the entry that a flush appends
OpenEntry ==
  BuildEntry(current_date, current_date_str, current_author,
             current_content_lines, source_name)

\* an open entry counted only when content lines are buffered
HasOpenEntryContentOnly ==
  current_date # None /\ current_content_lines # <<>>

\* if current_date is not None and (current_content_lines or current_author)
HasOpenEntry ==
  current_date # None /\ (current_content_lines # <<>> \/ current_author # <<>>)

\* a date boundary that leaves the collected lines in place
JournalDateLineKeepsContent ==
  /\ AtLine
  /\ TryParseDate(Strip(CurLine)) # None
  /\ entries' = IF HasOpenEntry THEN Append(entries, OpenEntry) ELSE entries
  /\ current_date' = TryParseDate(Strip(CurLine))
  /\ current_date_str' = Strip(CurLine)
  /\ current_author' = <<>>
  /\ collecting_content' = FALSE
  /\ l_idx' = l_idx + 1
  /\ UNCHANGED <<inputVars, cell_call, summary, pc, call, prev, expVars, goalVars, lines,
                 current_content_lines>>

\* a date boundary: flush, then reset to the new date
JournalDateLine ==
  /\ AtLine
  /\ TryParseDate(Strip(CurLine)) # None
  /\ entries' = IF HasOpenEntry THEN Append(entries, OpenEntry) ELSE entries
  /\ current_date' = TryParseDate(Strip(CurLine))
  /\ current_date_str' = Strip(CurLine)
  /\ current_author' = <<>>
  /\ current_content_lines' = <<>>
  /\ collecting_content' = FALSE
  /\ l_idx' = l_idx + 1
  /\ UNCHANGED <<inputVars, cell_call, summary, pc, call, prev, expVars, goalVars, lines>>

AwaitingAuthor == current_date # None /\ current_author = <<>> /\ ~collecting_content

\* the first non-empty line after a date is the author
JournalAuthorLine ==
  /\ AtLine
  /\ TryParseDate(Strip(CurLine)) = None
  /\ AwaitingAuthor
  /\ Strip(CurLine) # <<>> /\ LooksLikeAuthor(Strip(CurLine))
  /\ current_author' = Strip(CurLine)
  /\ collecting_content' = TRUE
  /\ l_idx' = l_idx + 1
  /\ UNCHANGED <<inputVars, cell_call, summary, pc, call, prev, expVars, goalVars, lines, entries,
                 current_date, current_date_str, current_content_lines>>

\* ... unless it is long or a bullet: content starts without an author
JournalNoAuthorLine ==
  /\ AtLine
  /\ TryParseDate(Strip(CurLine)) = None
  /\ AwaitingAuthor
  /\ Strip(CurLine) # <<>> /\ ~LooksLikeAuthor(Strip(CurLine))
  /\ current_author' = <<>>
  /\ collecting_content' = TRUE
  /\ current_content_lines' = Append(current_content_lines, CurLine)
  /\ l_idx' = l_idx + 1
  /\ UNCHANGED <<inputVars, cell_call, summary, pc, call, prev, expVars, goalVars, lines, entries,
                 current_date, current_date_str>>

\* a blank line between the date and the author, or a line before any date
JournalIgnoredLine ==
  /\ AtLine
  /\ TryParseDate(Strip(CurLine)) = None
  /\ \/ AwaitingAuthor /\ Strip(CurLine) = <<>>
     \/ current_date = None
  /\ l_idx' = l_idx + 1
  /\ UNCHANGED <<inputVars, cell_call, summary, pc, call, prev, expVars, goalVars, lines, entries,
                 current_date, current_date_str, current_author,
                 current_content_lines, collecting_content>>

\* an embedded-author test that also asks for a non-empty current author
EmbeddedAuthorKnownOnly ==
  /\ current_date # None /\ collecting_content /\ current_author # <<>>
  /\ IsEmbeddedAuthor(Strip(CurLine), current_content_lines)

\* if current_date is not None and collecting_content: ... the test
EmbeddedAuthorHere ==
  /\ current_date # None /\ collecting_content
  /\ IsEmbeddedAuthor(Strip(CurLine), current_content_lines)

\* a new author under the same date: flush, then start the author's entry
JournalEmbeddedAuthor ==
  /\ AtLine
  /\ TryParseDate(Strip(CurLine)) = None
  /\ ~AwaitingAuthor
  /\ EmbeddedAuthorHere
  /\ entries' = IF current_content_lines # <<>> THEN Append(entries, OpenEntry)
                ELSE entries
  /\ current_author' = Strip(CurLine)
  /\ current_content_lines' = <<>>
  /\ l_idx' = l_idx + 1
  /\ UNCHANGED <<inputVars, cell_call, summary, pc, call, prev, expVars, goalVars, lines,
                 current_date, current_date_str, collecting_content>>

\* a regular content line
JournalContentLine ==
  /\ AtLine
  /\ TryParseDate(Strip(CurLine)) = None
  /\ ~AwaitingAuthor
  /\ current_date # None
  /\ ~EmbeddedAuthorHere
  /\ collecting_content' = TRUE
  /\ current_content_lines' = Append(current_content_lines, CurLine)
  /\ l_idx' = l_idx + 1
  /\ UNCHANGED <<inputVars, cell_call, summary, pc, call, prev, expVars, goalVars, lines, entries,
                 current_date, current_date_str, current_author>>

\* end of input: the last open entry is flushed; return entries
JournalReturn ==
  /\ prog = "journal" /\ pc = "loop" /\ l_idx >= Len(lines)
  /\ entries' = IF HasOpenEntry THEN Append(entries, OpenEntry) ELSE entries
  /\ pc' = "done"
  /\ UNCHANGED <<inputVars, cell_call, summary, call, prev, expVars, goalVars, lines, l_idx,
                 current_date, current_date_str, current_author,
                 current_content_lines, collecting_content>>

(***************************************************************************)
(* _cell of experiment_sheet.py and of goals.py, called on its own         *)
(***************************************************************************)
MaxIndex == 3

\* the row and column numbers _cell is called with
CellIndices == (0 - 2)..MaxIndex

\* _cell(rows, r, c)
CellCall ==
  /\ prog = "cell" /\ pc = "call"
  /\ \E r \in CellIndices, c \in CellIndices :
       cell_call' = Some([fn |-> "experiment_sheet", r |-> r, c |-> c,
                          raised |-> CellRaises(rows, r, c),
                          out |-> Cell(rows, r, c)])
  /\ pc' = "returned"
  /\ UNCHANGED <<inputVars, summary, call, prev, expVars, goalVars, journalVars>>

\* _cell(row, idx) of goals.py, row being a row of the grid
GoalCellCall ==
  /\ prog = "cell" /\ pc = "call"
  /\ \E r \in 0..(Len(rows) - 1), idx \in CellIndices :
       cell_call' = Some([fn |-> "goals", r |-> r, c |-> idx,
                          raised |-> GCellRaises(rows[r + 1], idx),
                          out |-> GCell(rows[r + 1], idx)])
  /\ pc' = "returned"
  /\ UNCHANGED <<inputVars, summary, call, prev, expVars, goalVars, journalVars>>

(***************************************************************************)
(* The second call on the same input                                       *)
(***************************************************************************)
Result == IF prog \in {"exp", "csv"} THEN exp ELSE IF prog = "goals" THEN goals ELSE entries

CallAgain ==
  /\ pc = "done" /\ call = 1
  /\ prev' = Some(Result)
  /\ call' = 2
  /\ pc' = "call"
  /\ UNCHANGED <<inputVars, cell_call, summary, expVars, goalVars, journalVars>>

(***************************************************************************)
(* Inputs.  Grids and texts are assembled from the row and line shapes of  *)
(* the device-testing sheets, the goals sheet and the journals.            *)
(***************************************************************************)
MaxRuns == 2

MaxBlocks == 2

MaxItems == 2

MaxGoalRows == 3

MaxLines == 3

\* all sequences over S of length at most n
SeqsUpTo(S, n) == UNION {[1..k -> S] : k \in 0..n}

\* the concatenation of a sequence of sequences
RECURSIVE Flatten(_)
Flatten(ss) == IF ss = <<>> THEN <<>> ELSE Head(ss) \o Flatten(Tail(ss))

E == <<>>

SheetName == <<"D","e","v","i","c","e"," ","T","e","s","t","i","n","g"," ","-"," ","0","1","_","0","5","_","2","0","2","6"," ","L","O","D">>

SourceNames == {SheetName, <<"D","R","A","F","T","1","3","_","4","5","_","2","0","2","6"," ","x">>, <<>>}

PurposeRow == <<<<"P","u","r","p","o","s","e">>, E, <<"C","h","e","c","k"," ","L","O","D">>>>

AnchorRow == <<<<"F","A","M">>, E, <<"T","R","I","A","L">>, <<"R","U","N"," ","I","D">>>>

\* Ct cells as they are typed in the sheets, and malformed ones
CtCellTexts ==
  {E, <<"-">>, <<" ","-"," ">>, <<"0">>, <<"0",".","0","0">>, <<"2","4",".","6","3">>, <<" ","3","1",".","5">>, <<"a","b","c">>, <<"-","1">>, <<"i","n","f">>, <<"n","a","n">>,
   <<"1","e","1">>, <<"-","-">>, <<"-","0">>, <<".","5">>}

\* header row one below the anchor: with the "Ch0 Ct" cells at columns 4
\* and 9, or without any (default columns 6 and 11)
CtHeaderRow(detect) ==
  IF detect
  THEN <<<<"C","H"," ","0">>, <<"6","6","0","0"," ","c","p">>, E, E, <<"F","A","M"," ","C","h","0"," ","C","t">>, E, E, E, E, <<"R","O","X"," ","C","h","0"," ","C","t">>>>
  ELSE <<<<"C","H"," ","0">>, <<"6","6","0","0"," ","c","p">>>>

\* a data row whose FAM block starts at column fam: FAM ch0 = c1, ROX ch0 = c2
CtDataRow(fam, id, c1, c2) ==
  <<<<"C","H"," ","1">>, <<"N","C">>, <<"1">>, id>> \o [k \in 1..(fam - 4) |-> E]
    \o <<c1, <<"-">>, E, <<"0">>, <<"3","1",".","5">>>> \o <<c2, <<"0",".","0","0">>>>

CtGrids ==
  {<<PurposeRow, AnchorRow, CtHeaderRow(d), CtDataRow(IF d THEN 4 ELSE 6, <<"A","1">>, c1, c2)>> :
     d \in BOOLEAN, c1 \in CtCellTexts, c2 \in {E, <<"-">>, <<"0">>, <<"2","8",".","1">>, <<"x">>}}

RunIds == {<<"A","1">>, <<"B","2">>}

\* detail rows of a block
BodySample == <<<<<<"S","a","m","p","l","e"," ","s","e","t","u","p",":">>, E, <<"l","i","q","u","i","d">>>>>>

BodyFiles ==
  <<<<<<"B","a","t","c","h"," ","n","u","m","b","e","r">>, E, <<"B","7">>>>, <<<<"V","i","d","e","o",":">>, E, <<"v",".","m","p","4">>>>, <<<<"R","e","p","o","r","t">>, E, <<"r",".","p","d","f">>>>>>

BodyVideoNotes == <<<<<<"V","i","d","e","o"," ","n","o","t","e","s">>, E, <<"s","h","a","k","y">>>>>>

BodySequence ==
  <<<<<<"S","e","q","u","e","n","c","e"," ","S","e","t","u","p">>, E, <<"c","h","i","p","A">>>>,
    <<E, E, <<"S","t","e","p">>, <<"T","e","m","p">>>>,
    <<E, E, <<"D","e","n","a","t","u","r","e">>, <<"9","5">>, <<"1","0">>, <<"1">>, <<"0">>>>,
    <<E, E, E, <<"6","0">>, <<"2","0">>, <<"4","0">>>>>>

BodyNotesSample == <<<<<<"N","o","t","e","s">>, E, <<"n","1">>>>, <<<<"S","a","m","p","l","e"," ","s","e","t","u","p">>, E, <<"d","r","y">>>>>>

\* a detail block: the marker row (run number inline, run id in column 2)
\* and its rows
Block(id, body) == <<<<<<"R","U","N"," ","I","D",":"," ","1">>, E, id>>>> \o body

Blocks ==
  {Block(<<"A","1">>, BodySample), Block(<<"A","1">>, BodyFiles), Block(<<"A","1">>, BodyVideoNotes),
   Block(<<"B","2">>, BodySequence), Block(<<"A","1">>, BodyNotesSample), Block(<<"Z","9">>, BodySample)}

TableRow(id) == <<E, E, <<"2">>, id, <<"2","0">>>>

DetailGrids ==
  {<<AnchorRow, CtHeaderRow(FALSE)>>
     \o [k \in 1..Len(ids) |-> TableRow(ids[k])] \o Flatten(bs) :
     ids \in SeqsUpTo(RunIds, MaxRuns), bs \in SeqsUpTo(Blocks, MaxBlocks)}

\* reagent section on the right of the header area: landmark at (0, 3),
\* names in column 4 (or 3), volumes in column 5
ReagentHead ==
  <<<<<<"P","u","r","p","o","s","e">>, E, <<"L","O","D">>, <<"R","e","a","g","e","n","t","s">>, E, <<"V","o","l","u","m","e"," ","(","u","L",")">>>>,
    <<<<"T","e","s","t","e","r">>, E, <<"A","d","i","t">>, <<"R","e","a","g","e","n","t">>, E, <<"V","o","l","u","m","e">>>>>>

ItemRow(name, vol) == <<E, E, E, E, name, vol>>

ItemRows ==
  {ItemRow(<<"T","a","q">>, <<"5">>), ItemRow(<<"W","a","t","e","r">>, <<"x">>), ItemRow(E, E),
   ItemRow(<<"T","o","t","a","l"," ","R","N","A">>, <<"3">>)}

TotalRows ==
  {<<>>, <<<<E, E, E, <<"T","o","t","a","l">>, E, <<"2","5">>>>>>, <<ItemRow(<<"T","o","t","a","l">>, <<"2","5">>)>>,
   <<ItemRow(<<"t","o","t","a","l"," ","v","o","l","u","m","e">>, E)>>, <<ItemRow(<<"T","O","T","A","L">>, <<"n","/","a">>)>>}

ReagentGrids ==
  {ReagentHead \o items \o total \o trail :
     items \in SeqsUpTo(ItemRows, MaxItems), total \in TotalRows,
     trail \in {<<>>, <<ItemRow(<<"D","y","e">>, <<"1">>)>>}}

\* header area, then a would-be anchor row, a table and a detail block
HeaderAreas ==
  {<<>>,
   <<PurposeRow, <<<<"T","e","s","t","e","r",":">>, E, <<"A","d","i","t">>>>, <<<<"D","e","v","i","c","e">>, E, <<"T","S","-","0","0","3">>>>>>,
   <<PurposeRow, <<<<"N","o","t","e","s",":">>, E, <<"n","1">>>>, <<E, E, <<"n","2">>>>,
     <<<<"R","e","s","u","m","e">>, E, <<"w","o","r","k","s">>>>>>}

AnchorRows ==
  {AnchorRow, <<<<"f","a","m">>, E, <<"R","u","n">>, <<"i","d">>>>, <<<<"F","A","M">>, E, E, E>>,
   <<<<"F","A","M","X">>, E, <<"T","R","I","A","L">>, <<"R","U","N"," ","I","D">>>>, <<E, <<"F","A","M">>, <<"T","R","I","A","L">>, <<"R","U","N"," ","I","D">>>>}

AnchorGrids ==
  {h \o a \o <<CtHeaderRow(TRUE), CtDataRow(4, <<"A","1">>, <<"2","4",".","6","3">>, <<"-">>)>>
     \o Block(<<"A","1">>, BodySample) :
     h \in HeaderAreas, a \in {<<>>} \cup {<<r>> : r \in AnchorRows}}

\* header rows with one "ch0 ... ct" cell, with none but two cells holding
\* "ct", and with none but one such cell
OneMatchHeader == <<<<"C","H"," ","0">>, <<"6","6","0","0"," ","c","p">>, E, E, E, <<"F","A","M"," ","C","h","0"," ","C","t">>>>

AnyCtHeader == <<<<"C","H"," ","0">>, E, E, E, <<"F","A","M"," ","C","t">>, E, E, <<"R","O","X"," ","C","T">>>>

SingleCtHeader == <<<<"C","H"," ","0">>, E, E, <<"C","t"," ","v","a","l","u","e","s">>>>

\* the k-th of fifteen data rows: row 5 is labelled ROX, row 6 has no trial
\* number, row 7 a malformed one, and row 3 may lack its run identifier
LongTableRow(k, blank) ==
  <<IF k = 5 THEN <<"R","O","X">> ELSE E, E,
    IF k = 6 THEN E ELSE IF k = 7 THEN <<"x">> ELSE NatStr(k),
    IF blank /\ k = 3 THEN E ELSE <<"R">> \o NatStr(k),
    <<"2","0">>>>

\* a table longer than the window of thirteen rows
LongTable(blank) ==
  <<AnchorRow, CtHeaderRow(FALSE)>> \o [k \in 1..15 |-> LongTableRow(k, blank)]

\* grids at the edge of the layout: empty, one empty row, the anchor as last
\* row, an empty header row with a malformed trial cell in a short row, a
\* block with a malformed run number that names no Run, and a per-channel
\* reagent section with malformed numbers, and channel rows labelled with
\* the digits 7, 9 and 5
EdgeGrids ==
  {<<>>, LongTable(FALSE), LongTable(TRUE),
   <<AnchorRow, OneMatchHeader, CtDataRow(5, <<"A","1">>, <<"2","4",".","6","3">>, <<"2","8",".","1">>)>>,
   <<AnchorRow, AnyCtHeader, CtDataRow(4, <<"A","1">>, <<"2","4",".","6","3">>, <<"2","8",".","1">>)>>,
   <<AnchorRow, SingleCtHeader, CtDataRow(4, <<"A","1">>, <<"2","4",".","6","3">>, <<"2","8",".","1">>)>>,
   <<AnchorRow, <<<<"C","H"," ","7">>, <<"P","C">>>>, <<<<"c","h","9">>, <<"N","C">>, <<"1">>, <<"A","1">>>>, <<>>, <<>>, <<<<"R","O","X">>>>, <<<<"C","H"," ","5">>, <<"r","e","f">>>>>>,
   <<<<>>>>,
   <<AnchorRow>>,
   <<AnchorRow, <<>>, <<E, E, <<"x">>, <<"A","1">>>>>>,
   <<AnchorRow, CtHeaderRow(FALSE), TableRow(<<"A","1">>), <<<<"R","U","N"," ","I","D",":"," ","x">>, E, <<"Z","9">>>>, <<<<"S","a","m","p","l","e"," ","s","e","t","u","p">>>>>>,
   <<<<<<"R","e","a","g","e","n","t","s">>, <<"C","h","a","n","n","e","l"," ","0">>, E, <<"C","h","a","n","n","e","l"," ","1">>>>, <<E, <<"N","u","m","b","e","r">>, <<"n","/","a">>, E, <<"3">>>>, <<>>,
     <<E, <<"T","a","q">>, <<"5">>, <<"T","a","q">>, <<"x">>>>, <<E, <<"T","o","t","a","l">>, <<"o","o","p","s">>, <<"T","o","t","a","l">>, <<"2","5">>>>>>}

\* marker rows with the value after RUN ID: inline or in column 1, and
\* column 2 empty or naming another run
MarkerRows ==
  {<<<<"R","U","N"," ","I","D",":"," ","A","1">>, E, E>>, <<<<"R","U","N"," ","I","D",":">>, <<"A","1">>, E>>, <<<<"R","U","N"," ","I","D",":"," ","A","1">>, E, <<"B","2">>>>,
   <<<<"R","U","N"," ","I","D",":">>, <<"B","2">>, <<"A","1">>>>}

MarkerGrids ==
  {<<AnchorRow, CtHeaderRow(FALSE), TableRow(<<"A","1">>), TableRow(<<"B","2">>), m>> \o body :
     m \in MarkerRows, body \in {BodySample, BodyFiles}}

\* step rows of a long sequence: every second row without a step name
MaxSteps == 14

LongStepRow(k) ==
  <<E, E, IF k % 2 = 1 THEN <<"s">> \o NatStr(k) ELSE E, NatStr(50 + k), <<"3","0">>>>

SeqHead == <<<<<<"S","e","q","u","e","n","c","e"," ","S","e","t","u","p">>, E, <<"c","h","i","p","A">>>>, <<E, E, <<"S","t","e","p">>, <<"T","e","m","p">>>>>>

\* sequence blocks: one longer than the row cap, one directly above the
\* marker row of another run's block, one with a row that names a step
\* without a temperature, one whose setup row ends the grid
SequenceGrids ==
  {<<AnchorRow, CtHeaderRow(FALSE), TableRow(<<"B","2">>), <<<<"R","U","N"," ","I","D",":"," ","1">>, E, <<"B","2">>>>>>
     \o SeqHead \o [k \in 1..MaxSteps |-> LongStepRow(k)],
   <<AnchorRow, CtHeaderRow(FALSE), TableRow(<<"A","1">>), TableRow(<<"B","2">>)>>
     \o Block(<<"A","1">>, BodySequence) \o Block(<<"B","2">>, BodySample),
   <<AnchorRow, CtHeaderRow(FALSE), TableRow(<<"A","1">>), TableRow(<<"B","2">>)>>
     \o Block(<<"A","1">>, BodySequence) \o Block(<<"B","2">>, BodySequence),
   <<AnchorRow, CtHeaderRow(FALSE), TableRow(<<"A","1">>)>>
     \o Block(<<"A","1">>, SeqHead \o <<<<E, E, <<"H","o","l","d">>>>, <<E, E, E, <<"7","2">>, <<"5">>>>, <<>>, <<E, E, <<"C","o","o","l">>, <<"4">>>>>>),
   <<AnchorRow, CtHeaderRow(FALSE), TableRow(<<"A","1">>), <<<<"R","U","N"," ","I","D",":"," ","1">>, E, <<"A","1">>>>, <<<<"S","e","q","u","e","n","c","e"," ","S","e","t","u","p">>, E, <<"c","h","i","p","A">>>>>>}

\* a per-channel reagent section with MaxGroups channel groups side by
\* side, one reagent each
MaxGroups == 6

ChannelGrids ==
  {<<<<<<"R","e","a","g","e","n","t","s">>>> \o Flatten([k \in 1..MaxGroups |-> <<<<"C","h","a","n","n","e","l"," ">> \o NatStr(k - 1), E>>]),
     <<>>, <<>>,
     <<E>> \o Flatten([k \in 1..MaxGroups |-> <<<<"T","a","q">>, NatStr(k)>>])>>}

\* header areas whose multi-row fields run past their row cap, hold rows
\* with an empty column 2, and are followed by rows with other field labels
MaxFollow == 10

FollowRow(k) == <<E, E, IF k % 3 = 2 THEN E ELSE <<"t">> \o NatStr(k)>>

FollowRows == [k \in 1..MaxFollow |-> FollowRow(k)]

HeaderGrids ==
  {<<PurposeRow, <<<<"E","x","p","e","r","i","m","e","n","t","s",":">>, E, <<"e","0">>>>>> \o FollowRows,
   <<<<<<"N","o","t","e","s">>, E, <<"n","0">>>>>> \o FollowRows,
   <<<<<<"R","e","s","u","m","e"," ","/"," ","C","o","n","c","l","u","s","i","o","n">>, E, <<"r","0">>>>>> \o FollowRows,
   <<<<<<"E","x","p","e","r","i","m","e","n","t">>, E, <<"e","0">>>>, <<E, E, <<"e","1">>>>, <<<<"T","e","s","t","e","r">>, E, <<"A","d","i","t">>>>, <<E, E, <<"e","2">>>>>>,
   <<<<<<"E","x","p","e","r","i","m","e","n","t","s">>, E, <<"e","0">>>>, PurposeRow, <<<<"T","e","s","t","e","r">>, E, <<"A","d","i","t">>>>>>,
   <<<<<<"N","o","t","e","s">>, E, <<"n","0">>>>, <<<<"E","x","p","e","r","i","m","e","n","t","s">>, E, <<"e","0">>>>, <<<<"R","e","s","u","m","e">>, E, <<"r","0">>>>>>,
   <<<<<<"R","e","s","u","m","e">>, E, <<"r","0">>>>, <<<<"T","e","s","t","e","r">>, E, <<"A","d","i","t">>>>, <<<<"D","e","v","i","c","e">>, E, <<"T","S","-","0","0","3">>>>,
     <<<<"N","o","t","e","s">>, E, <<"n","0">>>>, <<E, E, <<"n","1">>>>>>}

ExpInputs ==
  {[rows |-> g, source_name |-> SheetName] :
      g \in CtGrids \cup DetailGrids \cup ReagentGrids \cup MarkerGrids
             \cup SequenceGrids \cup ChannelGrids \cup HeaderGrids}
  \cup {[rows |-> g, source_name |-> n] :
          g \in AnchorGrids \cup EdgeGrids, n \in SourceNames}

\* grids whose cells carry blanks around their text, and short rows
CellGrids ==
  {<<>>,
   <<<<>>>>,
   <<<<<<" ","a"," ">>, E>>, <<<<"\t","b">>>>>>,
   <<<<<<" "," ">>>>, <<<<"c"," ","d"," ">>, <<"e">>, <<" ">>, <<" ","f">>>>, <<>>>>}

\* rows of the goals sheet: name in column 1, requirements in column 3,
\* points 4, sign-off 5, due date 6, type 7
GoalRows ==
  {<<E, <<"R","2","D","2">>, E, <<"b","u","i","l","d"," ","i","t">>, <<"5","0">>, <<"K","H">>, <<"3","/","1">>, <<"t","e","a","m">>>>,
   <<E, <<"C","l","i","n","i","c","a","l">>, E, <<"R","S","P","A","W">>>>,
   <<E, <<"N","o","v","a">>, E, <<"x">>, <<"5",".","0">>>>,
   <<E, E, E, <<"m","o","r","e">>>>,
   <<E, E, E, E, <<"a","b","c">>, E, <<"4","/","1">>>>,
   <<E, E, E, <<"a","l","s","o">>, <<"2","0">>>>,
   <<E, <<" ","T","o","t","a","l"," ">>, E, E, <<"1","0","0">>>>,
   <<E, <<"H","i","g","h">>>>,
   <<E, <<"S","t","a","m","p","e","d","e"," ","/"," ","D","i","s","c","o","p","l","e","x">>>>}

GoalGrids == SeqsUpTo(GoalRows, MaxGoalRows)

\* journal lines: dates in three formats, an impossible date, authors,
\* content, a blank line, a bullet
JournalLines ==
  {<<"0","1","/","0","5","/","2","0","2","6">>, <<"2","0","2","6","-","0","2","-","0","4">>, <<"1","3","/","4","5","/","2","0","2","6">>, <<"A","d","i","t">>, <<"R","a","n"," ","L","O","D"," ","t","e","s","t",".">>, E,
   <<"*"," ","f","i","x","e","d"," ","t","h","e"," ","r","i","g">>, <<"K","a","b","i","r">>}

SpecFragment ==
  <<"0","1","/","0","5","/","2","0","2","6","\n","A","d","i","t","\n","R","a","n"," ","L","O","D"," ","t","e","s","t",".","\n","\n","0","2","/","0","4","/","2","0","2","6","\n","K","a","b","i","r","\n","R","e","v","i","e","w","e","d"," ","r","e","s","u","l","t","s",".">>

JournalTexts ==
  {Join(ls, <<"\n">>) : ls \in SeqsUpTo(JournalLines, MaxLines)}
  \cup {SpecFragment,
        <<"F","e","b","r","u","a","r","y"," ","4",","," ","2","0","2","6","\n","A","d","i","t","\n","r","u","n"," ","1"," ","[","a","]","o","k","\n","\n","\n","\n","K","a","b","i","r","\n","r","u","n"," ","2","\n">>,
        <<"n","o","t","e","s"," ","f","i","r","s","t","\n","2","-","4","-","2","0","2","6","\n","-"," ","n","o"," ","a","u","t","h","o","r"," ","h","e","r","e","\n","\n","B","o","w","o","\n","x">>,
        <<"F","e","b","r","u","a","r","y"," ","3","0",","," ","2","0","2","6","\n","A","d","i","t","\n","2","0","2","6","-","1","3","-","0","1","\n","1","/","2","/","2","6","\n","M","a","r","c","h"," ","5"," ","2","0","2","6","x">>,
        <<"O","l","d"," ","n","o","t","e","\n","0","1","/","0","5","/","2","0","2","6","\n","A","d","i","t","\n","R","a","n",".","\n","2","0","2","6","-","0","2","-","0","4","\n","K","a","b","i","r">>}

JournalNames == {<<"R","n","D"," ","J","o","u","r","n","a","l",".","t","x","t">>}

(***************************************************************************)
(* Specifications                                                          *)
(***************************************************************************)
Idle ==
  /\ pc = "call" /\ call = 1 /\ prev = None
  /\ exp = NewExperiment(<<>>) /\ ct_table_row = None
  /\ goals = <<>> /\ g_i = 0
  /\ lines = <<>> /\ l_idx = 0 /\ entries = <<>>
  /\ current_date = None /\ current_date_str = <<>> /\ current_author = <<>>
  /\ current_content_lines = <<>> /\ collecting_content = FALSE
  /\ cell_call = None /\ summary = <<>>

InitExp ==
  /\ prog = "exp"
  /\ \E inp \in ExpInputs : rows = inp.rows /\ source_name = inp.source_name
  /\ text = <<>>
  /\ Idle

InitGoals ==
  /\ prog = "goals"
  /\ rows \in GoalGrids
  /\ source_name = <<"G","o","a","l","s">>
  /\ text = <<>>
  /\ Idle

InitJournal ==
  /\ prog = "journal"
  /\ rows = <<>>
  /\ source_name \in JournalNames
  /\ text \in JournalTexts
  /\ Idle

\* a CSV file that has been read: its rows and its file name
CsvInputs ==
  {[rows |-> g, source_name |-> n] : g \in AnchorGrids \cup EdgeGrids, n \in SourceNames}

InitCsv ==
  /\ prog = "csv"
  /\ \E inp \in CsvInputs : rows = inp.rows /\ source_name = inp.source_name
  /\ text = <<>>
  /\ Idle

InitCell ==
  /\ prog = "cell"
  /\ rows \in CellGrids
  /\ source_name = <<>>
  /\ text = <<>>
  /\ Idle

Init == InitExp \/ InitGoals \/ InitJournal \/ InitCell \/ InitCsv

NextExp ==
  \/ ExpBegin \/ ExpHeader \/ ExpFindAnchor \/ ExpChannels \/ ExpCtTable
  \/ ExpDetails \/ ExpReagents \/ ExpSummary \/ CallAgain

NextGoals ==
  \/ GoalsBegin \/ GoalsSkipRow \/ GoalsEmit \/ GoalsDiscard \/ GoalsReturn
  \/ CallAgain

NextJournal ==
  \/ JournalBegin \/ JournalDateLine \/ JournalAuthorLine \/ JournalNoAuthorLine
  \/ JournalIgnoredLine \/ JournalEmbeddedAuthor \/ JournalContentLine
  \/ JournalReturn \/ CallAgain

NextCell == CellCall \/ GoalCellCall

NextCsv == CsvNoRows \/ CsvParse \/ CallAgain

Next == NextExp \/ NextGoals \/ NextJournal \/ NextCell \/ NextCsv

SpecExp == InitExp /\ [][NextExp]_vars

SpecGoals == InitGoals /\ [][NextGoals]_vars

SpecJournal == InitJournal /\ [][NextJournal]_vars

SpecCell == InitCell /\ [][NextCell]_vars

SpecCsv == InitCsv /\ [][NextCsv]_vars

Spec == Init /\ [][Next]_vars

(***************************************************************************)
(* Properties of the Ct table (experiment sheet)                           *)
(***************************************************************************)
\* the table passes have run
TableDone ==
  prog = "exp" /\ pc \in {"details", "reagents", "done"} /\ ct_table_row # None

\* the run-id column named by the anchor row, column 3 by default
TableRunIdCol ==
  LET t == ct_table_row[1]
      c == LastCol(IF t < Len(rows) THEN rows[t + 1] ELSE <<>>, 0, "runid", None)
  IN IF c = None THEN 3 ELSE c[1]

\* the grid rows (0-based) from r up to last that carry a run identifier
RECURSIVE RowsWithRunId(_, _, _)
RowsWithRunId(r, last, col) ==
  IF r >= Len(rows) \/ r >= last THEN <<>>
  ELSE (IF Cell(rows, r, col) # <<>> THEN <<r>> ELSE <<>>)
       \o RowsWithRunId(r + 1, last, col)

\* the data rows of the table, in grid order: the k-th one gives the k-th Run
TableDataRows ==
  RowsWithRunId(ct_table_row[1] + 2, ct_table_row[1] + 15, TableRunIdCol)

\* the cell behind slot c (0..4) of the FAM or ROX group of the k-th Run
FamCell(k, c) ==
  Cell(rows, TableDataRows[k], FindCtColumns(rows, ct_table_row[1]).fam_start + c)

RoxCell(k, c) ==
  Cell(rows, TableDataRows[k], FindCtColumns(rows, ct_table_row[1]).rox_start + c)

IsBlankOrDash(cell) == Strip(cell) = <<>> \/ Strip(cell) = <<"-">>

\* the slot behind an empty or "-" cell is absent
BlankIsAbsent(cell, slot) == IsBlankOrDash(cell) => slot = None

\* the Runs are those of the data rows W, and BlankIsAbsent holds for the
\* cells of the FAM and ROX groups, which start at the columns of cols
BlankIsAbsentIn(W, cols) ==
  /\ Len(exp.runs) = Len(W)
  /\ \A k \in 1..Len(exp.runs) : \A c \in 0..4 :
       /\ BlankIsAbsent(Cell(rows, W[k], cols.fam_start + c), exp.runs[k].ct_fam[c + 1])
       /\ BlankIsAbsent(Cell(rows, W[k], cols.rox_start + c), exp.runs[k].ct_rox[c + 1])

\* C1: every Ct cell that is empty or "-" after trimming gives an absent
\* slot (None, never 0) in the CtValues of its Run
CtBlankIsAbsent ==
  TableDone => BlankIsAbsentIn(TableDataRows, FindCtColumns(rows, ct_table_row[1]))

\* a finished extraction with a "-" cell and an empty cell behind absent slots
CtBlankIsAbsentWitness ==
  /\ TableDone /\ pc = "done" /\ Len(exp.runs) = 1
  /\ FamCell(1, 1) = <<"-">> /\ exp.runs[1].ct_fam[2] = None
  /\ FamCell(1, 2) = <<>> /\ exp.runs[1].ct_fam[3] = None

\* the slot behind a cell whose text float() reads as number holds number;
\* behind "0" and "0.00" it holds zero
NumberIsKept(cell, number, slot) ==
  /\ number # None => slot = number
  /\ cell \in {<<"0">>, <<"0",".","0","0">>} => slot = Some(FloatZero)

NumberIsKeptAt(cell, slot) == NumberIsKept(Strip(cell), PyFloat(Strip(cell)), slot)

\* the Runs are those of the data rows W, and NumberIsKept holds for the
\* cells of the FAM and ROX groups, which start at the columns of cols
NumberIsKeptIn(W, cols) ==
  /\ Len(exp.runs) = Len(W)
  /\ \A k \in 1..Len(exp.runs) : \A c \in 0..4 :
       /\ NumberIsKeptAt(Cell(rows, W[k], cols.fam_start + c), exp.runs[k].ct_fam[c + 1])
       /\ NumberIsKeptAt(Cell(rows, W[k], cols.rox_start + c), exp.runs[k].ct_rox[c + 1])

\* C2: every Ct cell whose trimmed text float() accepts gives a slot holding
\* that number; "0" and "0.00" give the number zero, not an absent slot
CtNumberIsKept ==
  TableDone => NumberIsKeptIn(TableDataRows, FindCtColumns(rows, ct_table_row[1]))

\* a finished extraction holding 24.63, a zero typed "0" and a zero typed "0.00"
CtNumberIsKeptWitness ==
  /\ TableDone /\ pc = "done" /\ Len(exp.runs) = 1
  /\ FamCell(1, 0) = <<"2","4",".","6","3">>
  /\ exp.runs[1].ct_fam[1] = Some([kind |-> "num", neg |-> FALSE, mant |-> 2463, exp |-> -2])
  /\ FamCell(1, 3) = <<"0">> /\ exp.runs[1].ct_fam[4] = Some(FloatZero)
  /\ RoxCell(1, 1) = <<"0",".","0","0">> /\ exp.runs[1].ct_rox[2] = Some(FloatZero)

(***************************************************************************)
(* Properties of a grid without a Ct-table anchor                          *)
(***************************************************************************)
SetMax(S) == CHOOSE m \in S : \A x \in S : x <= m

\* the row text of the anchor search: the non-blank cells, upper-cased
AnchorText(i) == Join(UpperNonBlank(rows[i + 1]), <<" ">>)

NoAnchorRow ==
  \A i \in 0..(Len(rows) - 1) :
    ~(/\ Upper(Cell(rows, i, 0)) = <<"F","A","M">>
      /\ (Contains(AnchorText(i), <<"T","R","I","A","L">>) \/ Contains(AnchorText(i), <<"R","U","N"," ","I","D">>)))

IsPurposeLabel(a) == a = <<"p","u","r","p","o","s","e">>

IsTesterLabel(a) == StartsWith(a, <<"t","e","s","t","e","r">>)

IsDeviceLabel(a) == a = <<"d","e","v","i","c","e">>

IsNotesLabel(a) == StartsWith(a, <<"n","o","t","e","s">>)

IsResumeLabel(a) == StartsWith(a, <<"r","e","s","u","m","e">>)

\* column 2 of the last of the first 41 rows whose label passes the test
HeaderLast(Hit(_)) ==
  LET hits == {i \in 0..(Len(rows) - 1) : i <= 40 /\ Hit(Lower(Cell(rows, i, 0)))}
  IN IF hits = {} THEN None ELSE Some(Cell(rows, SetMax(hits), 2))

\* the header fields carry what the labelled rows hold
HeaderKept ==
  /\ HeaderLast(IsPurposeLabel) # None => exp.purpose = HeaderLast(IsPurposeLabel)[1]
  /\ HeaderLast(IsTesterLabel) # None => exp.tester = HeaderLast(IsTesterLabel)[1]
  /\ HeaderLast(IsDeviceLabel) # None => exp.device = HeaderLast(IsDeviceLabel)[1]
  /\ HeaderLast(IsNotesLabel) # None => StartsWith(exp.notes, HeaderLast(IsNotesLabel)[1])
  /\ HeaderLast(IsResumeLabel) # None => StartsWith(exp.resume, HeaderLast(IsResumeLabel)[1])

\* C3: a grid with no row whose column 0 is FAM and whose text holds TRIAL
\* or RUN ID gives an Experiment with no runs and no channel assignments,
\* also when it has RUN ID: blocks; its header fields are still filled
NoAnchorNoTable ==
  (prog = "exp" /\ pc = "done" /\ NoAnchorRow) =>
    /\ exp.runs = <<>>
    /\ exp.channel_assignments = <<>>
    /\ HeaderKept

\* a finished extraction of a grid with a header area, a FAM row that names
\* no TRIAL or RUN ID column, Ct rows and a RUN ID: block
NoAnchorNoTableWitness ==
  /\ prog = "exp" /\ pc = "done" /\ NoAnchorRow
  /\ \E i \in 0..(Len(rows) - 1) : Upper(Cell(rows, i, 0)) = <<"F","A","M">>
  /\ \E i \in 0..(Len(rows) - 1) : IsRunMarker(rows, i)
  /\ exp.purpose = <<"C","h","e","c","k"," ","L","O","D">> /\ exp.tester = <<"A","d","i","t">> /\ exp.device = <<"T","S","-","0","0","3">>
  /\ exp.runs = <<>> /\ exp.channel_assignments = <<>>

(***************************************************************************)
(* Properties of the per-run detail pass                                   *)
(***************************************************************************)
DetailsDone == prog = "exp" /\ pc \in {"reagents", "done"}

\* the RUN ID: row that opens the block holding row r, -1 if none
OwnerMarker(r) ==
  LET ms == {i \in 0..(r - 1) : IsRunMarker(rows, i)}
  IN IF ms = {} THEN -1 ELSE SetMax(ms)

\* row r lies in a block whose marker row has id in column 2
InBlockOf(r, id) ==
  /\ ~IsRunMarker(rows, r)
  /\ OwnerMarker(r) >= 0 /\ r - OwnerMarker(r) < 100
  /\ Cell(rows, OwnerMarker(r), 2) = id

IsSampleLabel(a) == StartsWith(a, <<"s","a","m","p","l","e"," ","s","e","t","u","p">>)

IsBatchLabel(a) == StartsWith(a, <<"b","a","t","c","h"," ","n","u","m","b","e","r">>)

IsVideoLabel(a) == StartsWith(a, <<"v","i","d","e","o">>)

IsReportLabel(a) == StartsWith(a, <<"r","e","p","o","r","t">>)

IsSequenceLabel(a) == StartsWith(a, <<"s","e","q","u","e","n","c","e"," ","s","e","t","u","p">>)

IsVideoOnlyLabel(a) == StartsWith(a, <<"v","i","d","e","o">>) /\ ~Contains(a, <<"n","o","t","e","s">>)

IsReportOnlyLabel(a) == StartsWith(a, <<"r","e","p","o","r","t">>) /\ ~Contains(a, <<"n","o","t","e","s">>)

IsSequenceOnlyLabel(a) == StartsWith(a, <<"s","e","q","u","e","n","c","e"," ","s","e","t","u","p">>) /\ ~Contains(a, <<"n","o","t","e","s">>)

\* the rows of the blocks for id whose label passes the test
LabelRows(id, Hit(_)) ==
  {r \in 0..(Len(rows) - 1) : InBlockOf(r, id) /\ Hit(Lower(Cell(rows, r, 0)))}

\* value is the column-2 text of one of those rows, when there is one
TakenFrom(value, id, Hit(_)) ==
  LabelRows(id, Hit) # {} =>
    \E r \in LabelRows(id, Hit) : value = Some(Cell(rows, r, 2))

\* the RUN ID: rows of the grid
RunMarkers == {i \in 0..(Len(rows) - 1) : IsRunMarker(rows, i)}

\* the last of the marker rows M above row r, -1 if none
OwnerIn(M, r) == SetMax({0 - 1} \cup {i \in M : i < r})

\* row r, no marker row, lies in the block of the marker row owner, which
\* has id in column 2
InBlock(M, r, owner, id) ==
  /\ r \notin M
  /\ owner >= 0 /\ r - owner < 100
  /\ Cell(rows, owner, 2) = id

\* the rows of the blocks for id
BlockRows(M, id) ==
  {r \in 0..(Len(rows) - 1) : InBlock(M, r, OwnerIn(M, r), id)}

\* value is the column-2 text of the last row of S, None when S is empty
LastCell(S, value) ==
  value = IF S = {} THEN None ELSE Some(Cell(rows, SetMax(S), 2))

\* value is the column-2 text of the last row of B whose label passes the
\* test, None without one
LastOf(value, B, Hit(_)) ==
  LastCell({r \in B : Hit(Lower(Cell(rows, r, 0)))}, value)

\* a first Run with its identifier, filled from the rows B of its blocks;
\* any other Run
FilledFromLast(run, first, B) ==
  IF first
  THEN /\ LastOf(run.sample_setup, B, IsSampleLabel)
       /\ LastOf(run.batch_number, B, IsBatchLabel)
       /\ LastOf(run.video_file, B, IsVideoOnlyLabel)
       /\ LastOf(run.report_file, B, IsReportOnlyLabel)
       /\ run.sequence # None
            <=> \E r \in B : IsSequenceOnlyLabel(Lower(Cell(rows, r, 0)))
  ELSE /\ run.sample_setup = None /\ run.batch_number = None
       /\ run.video_file = None /\ run.report_file = None
       /\ run.sequence = None

FirstWithId(k) == \A j \in 1..(k - 1) : exp.runs[j].run_id # exp.runs[k].run_id

DetailPassKeepsRuns ==
  [][ExpDetails =>
       /\ Len(exp'.runs) = Len(exp.runs)
       /\ \A k \in 1..Len(exp.runs) :
            /\ exp'.runs[k].run_id = exp.runs[k].run_id
            /\ exp'.runs[k].trial_num = exp.runs[k].trial_num
            /\ exp'.runs[k].ct_fam = exp.runs[k].ct_fam
            /\ exp'.runs[k].ct_rox = exp.runs[k].ct_rox]_vars

\* after the detail pass of a grid with a block naming no Run and a block
\* naming one: the matched Run is filled, the run list is as long as the table
DetailPassKeepsRunsWitness ==
  /\ prog = "exp" /\ pc = "reagents" /\ ct_table_row # None
  /\ Len(exp.runs) = 1 /\ Len(TableDataRows) = 1
  /\ \E i \in 0..(Len(rows) - 1) :
       IsRunMarker(rows, i) /\ Cell(rows, i, 2) = <<"Z","9">>
  /\ exp.runs[1].sample_setup # None

(***************************************************************************)
(* Properties of the single reagent list                                   *)
(***************************************************************************)
\* the section of the sheets: landmark in column 3 of row 0, names in
\* column 4 (column 3 when that is empty), volumes in column 5
IsSingleSection ==
  /\ Len(rows) >= 2 /\ rows[1] = ReagentHead[1] /\ rows[2] = ReagentHead[2]

ReagentName(r) ==
  IF Cell(rows, r, 4) # <<>> THEN Cell(rows, r, 4) ELSE Cell(rows, r, 3)

TotalRowsOf == {r \in 2..(Len(rows) - 1) : StartsWith(Lower(ReagentName(r)), <<"t","o","t","a","l">>)}

SetMin(S) == CHOOSE m \in S : \A x \in S : m <= x

\* the section ends at a row named Total whose volume is 25
EndsWithTotal25 ==
  /\ IsSingleSection /\ TotalRowsOf # {}
  /\ Lower(ReagentName(SetMin(TotalRowsOf))) = <<"t","o","t","a","l">>
  /\ Cell(rows, SetMin(TotalRowsOf), 5) = <<"2","5">>

ReagentHeaderNames == {<<"r","e","a","g","e","n","t">>, <<"r","e","a","g","e","n","t"," ","d","e","s","c","r","i","p","t","i","o","n">>}

\* the names of the rows r..last-1 that carry one, header labels aside
RECURSIVE NamesFrom(_, _)
NamesFrom(r, last) ==
  IF r >= last THEN <<>>
  ELSE (IF ReagentName(r) # <<>> /\ Lower(ReagentName(r)) \notin ReagentHeaderNames
        THEN <<ReagentName(r)>> ELSE <<>>)
       \o NamesFrom(r + 1, last)

ItemNames(f) == [k \in 1..Len(f.reagents) |-> f.reagents[k].name]

\* one formulation: total 25, items from the rows above the Total row only
OneFormulationTotal25 ==
  /\ Len(exp.reagent_formulations) = 1
  /\ exp.reagent_formulations[1].total_volume_uL = Some(NormNum(FALSE, 25, 0))
  /\ exp.reagent_formulations[1].channel = None
  /\ ItemNames(exp.reagent_formulations[1]) = NamesFrom(2, SetMin(TotalRowsOf))
  /\ \A k \in 1..Len(exp.reagent_formulations[1].reagents) :
       Lower(exp.reagent_formulations[1].reagents[k].name) # <<"t","o","t","a","l">>

\* C9 as stated: a single-column section that ends at a row named Total with
\* volume 25 gives a formulation with total volume 25 whose items are the
\* rows above the Total row
TotalRowGivesFormulation ==
  (prog = "exp" /\ pc = "done" /\ EndsWithTotal25) => OneFormulationTotal25

\* C9 amended: ... provided a row above the Total row names a reagent;
\* without one the Experiment gets no formulation
TotalRowGivesFormulationIfItems ==
  (prog = "exp" /\ pc = "done" /\ EndsWithTotal25) =>
    IF NamesFrom(2, SetMin(TotalRowsOf)) # <<>>
    THEN OneFormulationTotal25
    ELSE exp.reagent_formulations = <<>>

\* two reagents, the Total row, and a row below it that is not read
TotalRowWitness ==
  /\ prog = "exp" /\ pc = "done" /\ EndsWithTotal25
  /\ SetMin(TotalRowsOf) = 4 /\ Len(rows) = 6
  /\ OneFormulationTotal25
  /\ Len(exp.reagent_formulations[1].reagents) = 2

(***************************************************************************)
(* Properties of the goals extractor                                       *)
(***************************************************************************)
\* the rows (0-based) from i on that open a goal that is kept
RECURSIVE GoalRowsFrom(_)
GoalRowsFrom(i) ==
  IF i >= Len(rows) THEN <<>>
  ELSE (IF /\ ~IsGoalSkipRow(rows[i + 1])
           /\ Lower(Strip(GCell(rows[i + 1], 1))) \notin GoalDenyNames
        THEN <<i>> ELSE <<>>) \o GoalRowsFrom(i + 1)

\* the rows below goal row i, up to the next row with a name, that have a
\* points cell
PointsBelow(i) ==
  {j \in (i + 1)..(Len(rows) - 1) :
     /\ \A m \in (i + 1)..j : Strip(GCell(rows[m + 1], 1)) = <<>>
     /\ GCell(rows[j + 1], 4) # <<>>}

\* the points text of goal row i: its own cell, else the first one below
PointsText(i) ==
  IF GCell(rows[i + 1], 4) # <<>> THEN GCell(rows[i + 1], 4)
  ELSE IF PointsBelow(i) = {} THEN <<>>
  ELSE GCell(rows[SetMin(PointsBelow(i)) + 1], 4)

\* C6: a goal row whose points text, its own or back-filled, is no valid
\* integer still gives a Goal, with points 0
BadPointsGiveZero ==
  (prog = "goals" /\ pc = "done") =>
    /\ Len(goals) = Len(GoalRowsFrom(0))
    /\ \A k \in 1..Len(goals) :
         /\ goals[k].short_name = Strip(GCell(rows[GoalRowsFrom(0)[k] + 1], 1))
         /\ PyInt(PointsText(GoalRowsFrom(0)[k])) = None => goals[k].points = 0

\* a goal with the points text "5.0" and a goal whose points "abc" come from
\* the row below it
BadPointsGiveZeroWitness ==
  /\ prog = "goals" /\ pc = "done" /\ Len(goals) = 2
  /\ PointsText(GoalRowsFrom(0)[1]) = <<"5",".","0">> /\ goals[1].points = 0
  /\ GCell(rows[GoalRowsFrom(0)[2] + 1], 4) = <<>>
  /\ PointsText(GoalRowsFrom(0)[2]) = <<"a","b","c">> /\ goals[2].points = 0

(***************************************************************************)
(* Properties of the journal extractor                                     *)
(***************************************************************************)
IsCalendarDate(ytxt, mtxt, dtxt) ==
  /\ DigitsVal(ytxt) >= 1 /\ DigitsVal(mtxt) \in 1..12
  /\ DigitsVal(dtxt) \in 1..DaysInMonth(DigitsVal(ytxt), DigitsVal(mtxt))

IsCalendarMDY(p) == IsMDYParts(p) /\ IsCalendarDate(p[3], p[1], p[2])

IsCalendarISO(p) == IsISOParts(p) /\ IsCalendarDate(p[1], p[2], p[3])

\* a line that is a date boundary: one of the four shapes, and a date of
\* the calendar
IsDateLine(line) ==
  \/ IsCalendarMDY(Split(line, "/"))
  \/ IsCalendarISO(Split(line, "-"))
  \/ DateMonthName(line, MonthPrefix(Lower(line))) # None
  \/ IsCalendarMDY(Split(line, "-"))

\* a line with the shape of a date
IsDateLike(line) ==
  IsMDYParts(Split(line, "/")) \/ IsISOParts(Split(line, "-"))

TextLines == Split(text, "\n")

NoDateLine == \A i \in 1..Len(TextLines) : ~IsDateLine(Strip(TextLines[i]))

\* C7: a text in which no line is a date boundary, date-like lines that are
\* no calendar dates included, gives no entry
NoDateNoEntries ==
  (prog = "journal" /\ pc = "done" /\ NoDateLine) => entries = <<>>

\* a finished extraction of three lines, an author-like line, a content
\* line and the date-like line 13/45/2026
NoDateNoEntriesWitness ==
  /\ prog = "journal" /\ pc = "done" /\ NoDateLine
  /\ Len(TextLines) = 3
  /\ \E i \in 1..Len(TextLines) : IsDateLike(TextLines[i])
  /\ \E i \in 1..Len(TextLines) : TextLines[i] = <<"A","d","i","t">>
  /\ \E i \in 1..Len(TextLines) : TextLines[i] = <<"R","a","n"," ","L","O","D"," ","t","e","s","t",".">>
  /\ entries = <<>>

FragmentEntries ==
  <<[entry_date |-> Some([y |-> 2026, m |-> 1, d |-> 5]), date_str |-> <<"0","1","/","0","5","/","2","0","2","6">>,
     author |-> <<"A","d","i","t">>, content |-> <<"R","a","n"," ","L","O","D"," ","t","e","s","t",".">>, source_file |-> source_name],
    [entry_date |-> Some([y |-> 2026, m |-> 2, d |-> 4]), date_str |-> <<"0","2","/","0","4","/","2","0","2","6">>,
     author |-> <<"K","a","b","i","r">>, content |-> <<"R","e","v","i","e","w","e","d"," ","r","e","s","u","l","t","s",".">>, source_file |-> source_name]>>

\* C8: the two-block fragment gives exactly the entries (2026-01-05, Adit,
\* "Ran LOD test.") and (2026-02-04, Kabir, "Reviewed results."), in that
\* order, the blank separator line trimmed from the first content
FragmentGivesTwoEntries ==
  (prog = "journal" /\ pc = "done" /\ text = SpecFragment) =>
    entries = FragmentEntries

\* the fragment read to its end, its blank line taken as content of Adit's entry
FragmentWitness ==
  /\ prog = "journal" /\ pc = "done" /\ text = SpecFragment
  /\ Len(entries) = 2 /\ Len(lines) = 7 /\ l_idx = 7
  /\ entries[1].author = <<"A","d","i","t">> /\ entries[2].author = <<"K","a","b","i","r">>

NoErrorOutcome ==
  prog = "exp" =>
    /\ pc \in {"call", "header", "anchor", "channels", "ct", "details", "reagents", "done",
               "summarised"}
    /\ pc # "call" => exp.source_file = source_name

\* a returned Experiment for a source name with the impossible date
\* 13_45_2026 and a ragged grid: empty header row, a trial cell that is no
\* integer, Ct cells beyond the end of the row
NoErrorOutcomeWitness ==
  /\ prog = "exp" /\ pc = "done"
  /\ \E i \in 1..Len(source_name) : DatePatternAt(source_name, i)
  /\ exp.experiment_date = None
  /\ rows = <<AnchorRow, <<>>, <<E, E, <<"x">>, <<"A","1">>>>>>
  /\ Len(exp.runs) = 1 /\ exp.runs[1].trial_num = 0
  /\ exp.runs[1].ct_fam = NoCtValues

(***************************************************************************)
(* The grid accessor                                                       *)
(***************************************************************************)
\* t is s without the blanks at its two ends
IsTrimOf(t, s) ==
  /\ \E i \in 0..Len(s) :
       /\ i + Len(t) <= Len(s)
       /\ SubSeq(s, i + 1, i + Len(t)) = t
       /\ \A k \in (1..i) \cup ((i + Len(t) + 1)..Len(s)) : IsSpaceC(s[k])
  /\ t # <<>> => ~IsSpaceC(t[1]) /\ ~IsSpaceC(t[Len(t)])

\* the finished call asked for a cell that the grid has
CellInside ==
  /\ cell_call[1].r >= 0 /\ cell_call[1].r < Len(rows)
  /\ cell_call[1].c >= 0 /\ cell_call[1].c < Len(rows[cell_call[1].r + 1])

\* C12: _cell never raises; it returns the cell without the blanks at its
\* ends when row and column are inside the grid and inside that row, and
\* the empty string for every other row and column, negative ones and
\* columns beyond a short row included.
CellTrimmedOrEmpty ==
  cell_call # None =>
    /\ ~cell_call[1].raised
    /\ IF CellInside
       THEN IsTrimOf(cell_call[1].out, rows[cell_call[1].r + 1][cell_call[1].c + 1])
       ELSE cell_call[1].out = <<>>

\* column -1 of a row whose last cell has text
CellTrimmedOrEmptyWitness ==
  /\ cell_call # None
  /\ cell_call[1].fn = "experiment_sheet"
  /\ cell_call[1].r = 1 /\ cell_call[1].c = 0 - 1
  /\ Len(rows) = 3 /\ rows[2][4] = <<" ","f">>
  /\ cell_call[1].out = <<>>

(***************************************************************************)
(* Entries and their date boundary                                         *)
(***************************************************************************)
\* the last date boundary among the first n lines, 0 when there is none
LastDateLine(n) ==
  SetMax({0} \cup {i \in 1..n : IsDateLine(Strip(lines[i]))})

\* the lines consumed after the line d
LinesAfter(d) == {lines[j] : j \in (d + 1)..l_idx}

\* what the loop has collected comes from the lines after the last date
\* boundary, and carries that boundary's date
CollectedAfter(d) ==
  /\ d = 0 => /\ entries = <<>> /\ current_date = None
              /\ current_author = <<>> /\ current_content_lines = <<>>
  /\ d > 0 => /\ current_date = TryParseDate(Strip(lines[d]))
              /\ current_date # None
              /\ \A k \in 1..Len(current_content_lines) :
                   \E l \in LinesAfter(d) : current_content_lines[k] = RStrip(l)
              /\ current_author # <<>> =>
                   \E l \in LinesAfter(d) : current_author = Strip(l)

\* a step that emits: one entry is appended, built from what was collected
EmitsCollected ==
  /\ Len(entries') = Len(entries) + 1
  /\ SubSeq(entries', 1, Len(entries)) = entries
  /\ entries'[Len(entries')].entry_date = current_date
  /\ current_date # None
  /\ entries'[Len(entries')].author = current_author
  /\ entries'[Len(entries')].content =
       Strip(CollapseBlankLines(StripPlaceholders(Join(current_content_lines, <<"\n">>))))

\* C13: every emitted entry has a date, that of the nearest date boundary
\* before its content, and nothing read before the first date boundary
\* reaches an entry's content or author.
EntriesFollowTheirDate ==
  [][(prog = "journal" /\ pc = "loop") =>
       /\ CollectedAfter(LastDateLine(l_idx))
       /\ entries' # entries => EmitsCollected]_vars

\* two entries of different dates from a text that starts with a note
EntriesFollowTheirDateWitness ==
  /\ prog = "journal" /\ pc = "done"
  /\ Len(lines) = 6 /\ lines[1] = <<"O","l","d"," ","n","o","t","e">>
  /\ Len(entries) = 2
  /\ entries[1].entry_date = Some([y |-> 2026, m |-> 1, d |-> 5])
  /\ entries[1].author = <<"A","d","i","t">> /\ entries[1].content = <<"R","a","n",".">>
  /\ entries[2].entry_date = Some([y |-> 2026, m |-> 2, d |-> 4])
  /\ entries[2].author = <<"K","a","b","i","r">> /\ entries[2].content = <<>>

(***************************************************************************)
(* The Ct table of the summary text                                        *)
(***************************************************************************)
\* the summary of an extraction that found the Ct table
TableSummarised == prog = "exp" /\ pc = "summarised" /\ ct_table_row # None

IsZeroText(cell) ==
  Strip(cell) \in {<<"0">>, <<"0",".","0","0">>, <<"-","0">>}

\* the rendered text of slot c (0..4) of the FAM or ROX group of the k-th line
FamText(k, c) == summary[k][3 + c]

RoxText(k, c) == summary[k][8 + c]

\* the text rendered for a cell and its slot
Rendered(cell, slot, txt) ==
  /\ IsBlankOrDash(cell) => txt = <<"-">>
  /\ IsZeroText(cell) => txt = <<"0",".","0","0">>
  /\ slot # None => txt # <<"-">>

\* the summary has one line per data row of W, and Rendered holds for the
\* cells of the FAM and ROX groups, which start at the columns of cols
RenderedIn(W, cols) ==
  /\ Len(summary) = Len(W)
  /\ \A k \in 1..Len(summary) : \A c \in 0..4 :
       /\ Rendered(Cell(rows, W[k], cols.fam_start + c), exp.runs[k].ct_fam[c + 1],
                   FamText(k, c))
       /\ Rendered(Cell(rows, W[k], cols.rox_start + c), exp.runs[k].ct_rox[c + 1],
                   RoxText(k, c))

\* C14: from cell to summary text, an empty or "-" cell is rendered "-" and
\* a zero cell "0.00"; no slot holding a number is rendered "-", so absent
\* and zero never share a rendered text.
SummaryKeepsAbsentAndZero ==
  TableSummarised =>
    RenderedIn(TableDataRows, FindCtColumns(rows, ct_table_row[1]))

\* a summary line with a "-" cell, an empty cell, a "0" cell and 24.63
SummaryKeepsAbsentAndZeroWitness ==
  /\ TableSummarised /\ Len(summary) = 1
  /\ FamCell(1, 0) = <<"2","4",".","6","3">> /\ FamText(1, 0) = <<"2","4",".","6","3">>
  /\ FamCell(1, 1) = <<"-">> /\ FamText(1, 1) = <<"-">>
  /\ FamCell(1, 2) = <<>> /\ FamText(1, 2) = <<"-">>
  /\ FamCell(1, 3) = <<"0">> /\ FamText(1, 3) = <<"0",".","0","0">>

(***************************************************************************)
(* Order of the returned entries                                           *)
(***************************************************************************)
\* date a is not before date b
DateGE(a, b) ==
  \/ a.y > b.y
  \/ a.y = b.y /\ a.m > b.m
  \/ a.y = b.y /\ a.m = b.m /\ a.d >= b.d

\* C15: the entries returned for a journal are sorted by entry date in
\* descending order, whatever the order of the date headings.
EntriesSortedDescending ==
  (prog = "journal" /\ pc = "done") =>
    \A i \in 1..Len(entries) : \A j \in i..Len(entries) :
      DateGE(entries[i].entry_date[1], entries[j].entry_date[1])

(***************************************************************************)
(* Run identifiers                                                         *)
(***************************************************************************)
\* C16: after extraction no two Runs of the Experiment have the same run
\* identifier.
RunIdsUnique ==
  (prog = "exp" /\ pc = "done") =>
    \A i \in 1..Len(exp.runs) : \A j \in 1..Len(exp.runs) :
      exp.runs[i].run_id = exp.runs[j].run_id => i = j

(***************************************************************************)
(* Range of the Ct slots                                                   *)
(***************************************************************************)
\* an absent slot, or a finite number that is not below zero
IsAbsentOrFiniteNonNegative(v) ==
  v = None \/ (v[1].kind = "num" /\ (~v[1].neg \/ v[1].mant = 0))

\* C17: every CtValues slot of every extracted Run is absent or a finite
\* non-negative number; a cell holding a negative number, inf or nan gives
\* no present slot.
CtSlotsFiniteNonNegative ==
  TableDone =>
    \A k \in 1..Len(exp.runs) : \A c \in 1..5 :
      /\ IsAbsentOrFiniteNonNegative(exp.runs[k].ct_fam[c])
      /\ IsAbsentOrFiniteNonNegative(exp.runs[k].ct_rox[c])

(***************************************************************************)
(* Channel assignments                                                     *)
(***************************************************************************)
\* C18: every ChannelAssignment of an extracted Experiment has a channel
\* index in 0..4 and the fluorophore FAM or ROX; a row labelled CH with a
\* digit outside 0-4 gives no assignment.
ChannelsInRange ==
  (prog = "exp" /\ pc = "done") =>
    \A k \in 1..Len(exp.channel_assignments) :
      /\ exp.channel_assignments[k].channel_num \in 0..4
      /\ exp.channel_assignments[k].fluorophore \in {<<"F","A","M">>, <<"R","O","X">>}

(***************************************************************************)
(* The window of the Ct table                                              *)
(***************************************************************************)
\* the rows of the window anchor+2 .. anchor+14 that carry a run identifier
WindowRows ==
  {r \in (ct_table_row[1] + 2)..(ct_table_row[1] + 14) :
     r < Len(rows) /\ Cell(rows, r, TableRunIdCol) # <<>>}

\* the k-th row of W in row order
RowOfRun(W, k) ==
  CHOOSE r \in W : Cardinality({q \in W : q < r}) = k - 1

\* the run identifiers of exp.runs are those of the rows W, in row order
RunIdsFrom(W, col) ==
  /\ Len(exp.runs) = Cardinality(W)
  /\ \A k \in 1..Len(exp.runs) :
       exp.runs[k].run_id = Cell(rows, RowOfRun(W, k), col)

TableHeaderRow ==
  IF ct_table_row[1] + 1 < Len(rows) THEN rows[ct_table_row[1] + 2] ELSE <<>>

HasText(cell, t) == Contains(Lower(Strip(cell)), t)

\* the columns of the header row whose cell holds "ct" and a "ch0" marker
Ch0CtCols ==
  {c \in 0..(Len(TableHeaderRow) - 1) :
     /\ HasText(TableHeaderRow[c + 1], <<"c","t">>)
     /\ \/ HasText(TableHeaderRow[c + 1], <<"c","h","0">>)
        \/ HasText(TableHeaderRow[c + 1], <<"c","h"," ","0">>)}

\* the columns of the header row whose cell holds "ct"
AnyCtCols ==
  {c \in 0..(Len(TableHeaderRow) - 1) : HasText(TableHeaderRow[c + 1], <<"c","t">>)}

\* the first column of S, and the second one or the first plus five
FirstOf(S) == SetMin(S)

SecondOf(S) ==
  IF Cardinality(S) >= 2 THEN SetMin(S \ {SetMin(S)}) ELSE SetMin(S) + 5

\* the slots of the Run of row r are read from the five columns from fam
\* and the five columns from rox
RunReadFrom(run, r, fam, rox) ==
  \A c \in 0..4 :
    /\ run.ct_fam[c + 1] = ParseCtValue(Cell(rows, r, fam + c))
    /\ run.ct_rox[c + 1] = ParseCtValue(Cell(rows, r, rox + c))

\* the Runs are those of the rows W, read from the columns fam and rox
RunsReadIn(W, fam, rox) ==
  /\ Len(exp.runs) = Cardinality(W)
  /\ \A k \in 1..Len(exp.runs) : RunReadFrom(exp.runs[k], RowOfRun(W, k), fam, rox)

RunsReadFrom(fam, rox) == RunsReadIn(WindowRows, fam, rox)

\* the columns that S gives: its first, and its second or the first plus 5
RunsReadFromCols(S) == RunsReadFrom(FirstOf(S), SecondOf(S))

\* C20 as stated: with fewer than two "ch0 ... ct" cells in the row below
\* the anchor the FAM block starts at column 6 and the ROX block at column
\* 11, whatever that row holds.
DefaultColumnsBelowTwoMatches ==
  (TableDone /\ Cardinality(Ch0CtCols) < 2) => RunsReadFrom(6, 11)

\* C20, amended: with two or more "ch0 ... ct" cells the first two give the
\* FAM and ROX columns; with one, it gives FAM and ROX is five columns on;
\* with none, the cells holding "ct" are used the same way; columns 6 and
\* 11 are taken only when no cell of the row holds "ct".
ColumnsFromHeaderCells ==
  TableDone =>
    IF Ch0CtCols # {} THEN RunsReadFromCols(Ch0CtCols)
    ELSE IF AnyCtCols # {} THEN RunsReadFromCols(AnyCtCols)
    ELSE RunsReadFrom(6, 11)

\* one "ch0 ... ct" cell, at column 5: FAM is read from column 5 and ROX
\* from column 10
ColumnsFromHeaderCellsWitness ==
  /\ TableDone /\ pc = "done"
  /\ Ch0CtCols = {5}
  /\ Len(exp.runs) = 1
  /\ Cell(rows, 2, 5) = <<"2","4",".","6","3">> /\ Cell(rows, 2, 6) = <<"-">>
  /\ exp.runs[1].ct_fam[1] = Some([kind |-> "num", neg |-> FALSE, mant |-> 2463, exp |-> -2])
  /\ Cell(rows, 2, 10) = <<"2","8",".","1">> /\ Cell(rows, 2, 11) = <<"0",".","0","0">>
  /\ exp.runs[1].ct_rox[1] = Some([kind |-> "num", neg |-> FALSE, mant |-> 281, exp |-> -1])

\* ---------------------------------------------------------------------
\* C21  the value a RUN ID: row declares and the Run it is merged into
\* ---------------------------------------------------------------------

\* the value declared after RUN ID:, inline or else in column 1
DeclaredId(i) ==
  LET inline == Strip(Replace(Upper(Cell(rows, i, 0)), <<"R","U","N"," ","I","D",":">>, <<>>))
  IN IF inline # <<>> THEN inline ELSE Strip(Cell(rows, i, 1))

\* a label of one of the detail fields
IsDetailLabel(a) ==
  \/ IsSampleLabel(a) \/ IsBatchLabel(a) \/ IsVideoLabel(a)
  \/ IsReportLabel(a) \/ IsSequenceLabel(a)
  \/ (Contains(a, <<"n","o","t","e","s">>) /\ ~StartsWith(a, <<"r","u","n">>))

\* some row of S carries a detail label
HasDetailRow(S) == \E r \in S : IsDetailLabel(Lower(Cell(rows, r, 0)))

AnyDetail(run) ==
  \/ run.sample_setup # None \/ run.batch_number # None
  \/ run.run_notes # None \/ run.video_file # None
  \/ run.report_file # None \/ run.sequence # None

\* the rows of the block that the marker row i of M opens
RowsOfMarker(M, i) ==
  {r \in (i + 1)..(Len(rows) - 1) : r \notin M /\ OwnerIn(M, r) = i /\ r - i < 100}

\* C21 as stated: the value declared after RUN ID:, inline or in column 1, is
\* the value compared with Run.run_id: the first Run whose identifier a
\* marker row declares receives the detail rows of that block
DeclaredIdJoinsIn(M) ==
  \A k \in 1..Len(exp.runs) :
    \A i \in M :
      (FirstWithId(k) /\ DeclaredId(i) = exp.runs[k].run_id
         /\ HasDetailRow(RowsOfMarker(M, i)))
      => AnyDetail(exp.runs[k])

DeclaredIdJoins == DetailsDone => DeclaredIdJoinsIn(RunMarkers)

\* a Run holds detail fields exactly when it is the first Run with its
\* identifier and a block whose marker row has that identifier in column 2
\* carries a detail row
ColumnTwoJoinsIn(M) ==
  \A k \in 1..Len(exp.runs) :
    AnyDetail(exp.runs[k])
      <=> (FirstWithId(k) /\ HasDetailRow(BlockRows(M, exp.runs[k].run_id)))

\* C21 amended: the value compared with Run.run_id is the column-2 cell of
\* the RUN ID: row; the value declared after RUN ID:, inline or in column 1,
\* takes no part in the join
ColumnTwoJoins == DetailsDone => ColumnTwoJoinsIn(RunMarkers)

\* a marker row declares A1 inline with B2 in column 2: the block goes to B2
\* and A1 stays without details
ColumnTwoJoinsWitness ==
  /\ DetailsDone /\ pc = "done" /\ Len(exp.runs) = 2
  /\ Len(rows) >= 6 /\ IsRunMarker(rows, 4)
  /\ DeclaredId(4) = exp.runs[1].run_id
  /\ Cell(rows, 4, 2) = exp.runs[2].run_id
  /\ exp.runs[1].run_id # exp.runs[2].run_id
  /\ IsSampleLabel(Lower(Cell(rows, 5, 0)))
  /\ ~AnyDetail(exp.runs[1])
  /\ exp.runs[2].sample_setup = Some(Cell(rows, 5, 2))

\* ---------------------------------------------------------------------
\* C22  the step scan of a sequence setup sub-block
\* ---------------------------------------------------------------------

\* the rows the scan below the setup row r reads: rows r+2 .. r+14 up to
\* the first one with neither a step name nor a temperature
ScannedRows(r) ==
  {i \in (r + 2)..SetMin({r + 14, Len(rows) - 1}) :
     \A j \in (r + 2)..i : Cell(rows, j, 2) # <<>> \/ Cell(rows, j, 3) # <<>>}

\* the n-th row of S in row order
NthRow(S, n) == CHOOSE i \in S : Cardinality({j \in S : j < i}) = n - 1

\* the most recent non-empty step-name cell of S at or above row i
StickyName(S, i) ==
  LET N == {j \in S : j <= i /\ Cell(rows, j, 2) # <<>>}
  IN IF N = {} THEN <<>> ELSE Cell(rows, SetMax(N), 2)

\* steps holds one step per row of T, in row order, named from the rows S
StepsFromRows(steps, S, T) ==
  /\ Len(steps) = Cardinality(T)
  /\ \A n \in 1..Len(steps) :
       steps[n] = [step_name |-> StickyName(S, NthRow(T, n)),
                   temp_c |-> Cell(rows, NthRow(T, n), 3),
                   time_s |-> Cell(rows, NthRow(T, n), 4),
                   cycles |-> Cell(rows, NthRow(T, n), 5),
                   offset |-> Cell(rows, NthRow(T, n), 6)]

StepsFromScan(steps, S) ==
  StepsFromRows(steps, S, {i \in S : Cell(rows, i, 3) # <<>>})

\* the last sequence setup row among the rows B
SetupRow(B) == SetMax({r \in B : IsSequenceOnlyLabel(Lower(Cell(rows, r, 0)))})

SequenceScannedIn(M) ==
  \A k \in 1..Len(exp.runs) :
    exp.runs[k].sequence # None =>
      StepsFromScan(exp.runs[k].sequence[1].steps,
                    ScannedRows(SetupRow(BlockRows(M, exp.runs[k].run_id))))

\* C22: the steps of a Run's sequence are the rows with a temperature among
\* the rows setup+2 .. setup+14 read up to the first row with neither a step
\* name nor a temperature, in row order, each named by the most recent
\* non-empty step-name cell of the scan and holding the temperature,
\* duration, cycles and offset cells unchanged
SequenceScanned == DetailsDone => SequenceScannedIn(RunMarkers)

\* a scan that ends at the row cap, with a row that inherits its step name
SequenceScannedWitness ==
  /\ DetailsDone /\ pc = "done" /\ Len(exp.runs) >= 1
  /\ exp.runs[1].sequence # None
  /\ Len(exp.runs[1].sequence[1].steps) = 13
  /\ IsSequenceOnlyLabel(Lower(Cell(rows, 4, 0)))
  /\ Len(rows) > 4 + 15 /\ Cell(rows, 4 + 15, 3) # <<>>
  /\ Cell(rows, 4 + 3, 2) = <<>>
  /\ exp.runs[1].sequence[1].steps[2].step_name = Cell(rows, 4 + 2, 2)

\* ---------------------------------------------------------------------
\* C23  the step scan and the next RUN ID: row
\* ---------------------------------------------------------------------

\* the rows of S above the first marker row of M below the setup row r
BeforeNextMarker(S, M, r) == {i \in S : \A j \in (r + 1)..i : j \notin M}

StepsWithinBlockIn(M) ==
  \A k \in 1..Len(exp.runs) :
    exp.runs[k].sequence # None =>
      LET r == SetupRow(BlockRows(M, exp.runs[k].run_id))
      IN StepsFromScan(exp.runs[k].sequence[1].steps,
                       BeforeNextMarker(ScannedRows(r), M, r))

\* C23: the steps of a Run's sequence come from rows of the block that holds
\* its sequence setup row; the scan reads no row at or past the next RUN ID:
\* row
StepsWithinBlock == DetailsDone => StepsWithinBlockIn(RunMarkers)

\* ---------------------------------------------------------------------
\* C24  the number of reagent formulations and their channel index
\* ---------------------------------------------------------------------

\* the formulations F of a per-channel section: at most five, each with a
\* channel index in 0..4; those of a single list: at most one, without one
FormulationsBounded(F) ==
  IF \E i \in 1..Len(F) : F[i].channel # None
  THEN /\ Len(F) <= 5
       /\ \A i \in 1..Len(F) : F[i].channel # None /\ F[i].channel[1] \in 0..4
  ELSE Len(F) <= 1

\* C24: a per-channel reagent section gives at most five formulations, each
\* with a channel index in 0..4; a single-list section gives at most one
\* formulation, with the channel index absent
ReagentChannelsBounded ==
  (prog = "exp" /\ pc = "done") => FormulationsBounded(exp.reagent_formulations)

\* ---------------------------------------------------------------------
\* C25  the accumulated text of a multi-row header field
\* ---------------------------------------------------------------------

HeaderDone == prog = "exp" /\ pc \notin {"call", "header", "error"}

\* the last header row (rows 0..40) whose label passes the test, -1 if none
FieldRow(Hit(_)) ==
  SetMax({0 - 1} \cup {i \in 0..SetMin({40, Len(rows) - 1}) : Hit(Lower(Cell(rows, i, 0)))})

\* the rows below row i read for its field: at most cap rows, up to the
\* first one whose label starts with a label of stops
FollowingRows(i, cap, stops) ==
  {j \in (i + 1)..SetMin({i + cap, Len(rows) - 1}) :
     \A k \in (i + 1)..j : ~StartsWithAny(Lower(Cell(rows, k, 0)), stops)}

\* the column-2 texts of the rows T in row order
TextsOf(T) == [n \in 1..Cardinality(T) |-> Cell(rows, NthRow(T, n), 2)]

\* value is the column-2 text of row i and the non-empty column-2 texts of
\* the rows S, joined by newlines
AccumulatedFrom(value, i, S) ==
  value = Join(<<Cell(rows, i, 2)>> \o TextsOf({j \in S : Cell(rows, j, 2) # <<>>}),
               <<"\n">>)

Accumulated(value, i, cap, stops) ==
  i >= 0 => AccumulatedFrom(value, i, FollowingRows(i, cap, stops))

IsExperimentLabel(a) == StartsWith(a, <<"e","x","p","e","r","i","m","e","n","t">>)

\* C25: a multi-row header field found at row i holds the column-2 text of
\* row i followed by the non-empty column-2 texts of the rows below it, in
\* order, up to the first row whose label starts with a label of the field's
\* stop-list, from at most 5 rows (experiments) or 9 rows (notes, resume)
MultiRowAccumulated ==
  HeaderDone =>
    /\ Accumulated(exp.experiments_desc, FieldRow(IsExperimentLabel), 5, StopExperiments)
    /\ Accumulated(exp.notes, FieldRow(IsNotesLabel), 9, StopNotes)
    /\ Accumulated(exp.resume, FieldRow(IsResumeLabel), 9, StopResume)

\* an experiments field cut at its row cap with a row of empty column 2
\* skipped, over rows that carry more text below the cap
MultiRowAccumulatedWitness ==
  /\ HeaderDone /\ pc = "done"
  /\ FieldRow(IsExperimentLabel) = 1
  /\ Cardinality(FollowingRows(1, 5, StopExperiments)) = 5
  /\ Len(rows) > 7 /\ Cell(rows, 7, 2) # <<>> /\ Cell(rows, 3, 2) = <<>>
  /\ exp.experiments_desc =
       Join(<<Cell(rows, 1, 2), Cell(rows, 2, 2), Cell(rows, 4, 2), Cell(rows, 5, 2)>>, <<"\n">>)

\* ---------------------------------------------------------------------
\* C26  rows with a field label below a multi-row field
\* ---------------------------------------------------------------------

\* a column-0 text that the header scan recognises as a field label
IsFieldLabel(a) ==
  \/ a = <<"p","u","r","p","o","s","e">> \/ IsExperimentLabel(a) \/ StartsWith(a, <<"t","e","s","t","e","r">>)
  \/ a = <<"d","e","v","i","c","e">> \/ IsNotesLabel(a) \/ IsResumeLabel(a)

\* the rows of S that carry no field label of their own
Unlabelled(S) == {j \in S : ~IsFieldLabel(Lower(Cell(rows, j, 0)))}

OwnTextOnly(value, i, cap, stops) ==
  i >= 0 => AccumulatedFrom(value, i, Unlabelled(FollowingRows(i, cap, stops)))

\* C26: the column-2 text of a row that carries a field label of its own
\* (purpose, experiment..., tester..., device, notes..., resume...) is never
\* appended to the experiments, notes or resume field of a row above it
LabelRowsNotAppended ==
  HeaderDone =>
    /\ OwnTextOnly(exp.experiments_desc, FieldRow(IsExperimentLabel), 5, StopExperiments)
    /\ OwnTextOnly(exp.notes, FieldRow(IsNotesLabel), 9, StopNotes)
    /\ OwnTextOnly(exp.resume, FieldRow(IsResumeLabel), 9, StopResume)

\* ---------------------------------------------------------------------
\* C27  the rows a goal consumes and what it takes from them
\* ---------------------------------------------------------------------

\* the first row below row i with a non-empty name column, the length of the
\* grid without one
NextNamedRow(i) ==
  SetMin({Len(rows)} \cup {j \in (i + 1)..(Len(rows) - 1) : Strip(GCell(rows[j + 1], 1)) # <<>>})

\* the column-c texts of the rows T in row order
GoalTextsOf(T, c) == [n \in 1..Cardinality(T) |-> GCell(rows[NthRow(T, n) + 1], c)]

\* the own cell of row i, else the cell of the first row of S that has one
BackFilled(i, S, c) ==
  IF GCell(rows[i + 1], c) # <<>> THEN GCell(rows[i + 1], c)
  ELSE IF \A j \in S : GCell(rows[j + 1], c) = <<>> THEN <<>>
  ELSE GCell(rows[SetMin({j \in S : GCell(rows[j + 1], c) # <<>>}) + 1], c)

\* goal g is built from row i and the rows S below it
GoalFrom(g, i, S) ==
  /\ g.requirements =
       Join(GoalTextsOf({j \in {i} \cup S : GCell(rows[j + 1], 3) # <<>>}, 3), <<"\n">>)
  /\ g.points = IntOrZero(BackFilled(i, S, 4))
  /\ g.due_date = BackFilled(i, S, 6)

\* the step of the loop at a goal-start row i: the loop goes on at the next
\* named row, and a Goal that is appended is built from the rows in between
GoalStep(i, j) ==
  /\ g_i' = j
  /\ goals' # goals =>
       /\ Len(goals') = Len(goals) + 1
       /\ GoalFrom(goals'[Len(goals')], i, (i + 1)..(j - 1))

\* C27: a goal opened at row i consumes the rows below it up to the next
\* row with a non-empty name column, which is the next candidate; its
\* requirements are the non-empty requirement texts of those rows joined by
\* newlines; points and due date come from row i, or else from the first
\* consumed row that has them; the loop never goes back over a consumed row
GoalConsumesContinuation ==
  [][(prog = "goals" /\ pc = "loop" /\ pc' = "loop" /\ g_i < Len(rows))
       => /\ g_i' > g_i
          /\ ~IsGoalSkipRow(rows[g_i + 1]) => GoalStep(g_i, NextNamedRow(g_i))]_vars

\* a goal with two continuation rows that both supply points: the first
\* one's are taken
GoalConsumesContinuationWitness ==
  /\ prog = "goals" /\ pc = "done" /\ Len(rows) = 3 /\ Len(goals) = 1
  /\ NextNamedRow(0) = 3
  /\ GCell(rows[1], 4) = <<>> /\ GCell(rows[2], 4) # <<>> /\ GCell(rows[3], 4) # <<>>
  /\ GCell(rows[2], 4) # GCell(rows[3], 4)
  /\ goals[1].points = 20
  /\ Contains(goals[1].requirements, <<"\n">>)
  /\ goals[1].due_date # <<>>

\* ---------------------------------------------------------------------
\* C28  the embedded author boundary
\* ---------------------------------------------------------------------

\* a single title-cased word shorter than 30 characters, without digits and
\* without a bullet or heading marker in front
IsSingleTitleWord(s) ==
  /\ s # <<>> /\ Len(s) < 30
  /\ s[1] \notin {"*", "-", "#"}
  /\ \A i \in 1..Len(s) : ~IsDigitC(s[i]) /\ s[i] # " "
  /\ IsTitle(s)

\* content is being collected and the last buffered line is blank
AfterBlankBufferedLine ==
  /\ current_date # None /\ collecting_content
  /\ current_content_lines # <<>>
  /\ Strip(current_content_lines[Len(current_content_lines)]) = <<>>

\* the step takes the line as an embedded author boundary: an entry is
\* flushed and an author is current afterwards
BoundaryTaken ==
  /\ l_idx' = l_idx + 1
  /\ Len(entries') = Len(entries) + 1
  /\ current_author' # <<>>

\* the flush and the fresh entry of a boundary taken at the current line
FlushedWithOldAuthor ==
  /\ entries' = Append(entries, OpenEntry)
  /\ entries'[Len(entries')].author = current_author
  /\ entries'[Len(entries')].entry_date = current_date
  /\ current_date' = current_date /\ current_date_str' = current_date_str
  /\ current_author' = Strip(CurLine)
  /\ current_content_lines' = <<>>
  /\ collecting_content'

\* C28 as stated: an embedded author boundary is taken only under a known
\* (non-empty) author, for a single title-cased word after a blank buffered
\* line
BoundaryOnlyUnderKnownAuthor ==
  [][(AtLine /\ BoundaryTaken)
       => /\ current_author # <<>>
          /\ AfterBlankBufferedLine /\ IsSingleTitleWord(Strip(CurLine))]_vars

\* C28 amended: an embedded author boundary is taken exactly when content is
\* being collected under an open date, with or without an author, the last
\* buffered line is blank and the line is a single title-cased word shorter
\* than 30 characters without digits or a leading marker; the buffer is then
\* flushed as one entry with the old author and date, and the line becomes
\* the author of a fresh entry with the same date and an empty buffer
BoundaryWhileCollecting ==
  [][AtLine
       => /\ BoundaryTaken <=> (AfterBlankBufferedLine /\ IsSingleTitleWord(Strip(CurLine)))
          /\ BoundaryTaken => FlushedWithOldAuthor]_vars

\* a boundary just taken under an empty author: the flushed entry has no
\* author and holds the bullet line, the name line is the current author
BoundaryWhileCollectingWitness ==
  /\ prog = "journal" /\ pc = "loop" /\ l_idx >= 3
  /\ current_author = Strip(lines[l_idx]) /\ IsSingleTitleWord(current_author)
  /\ current_content_lines = <<>> /\ collecting_content
  /\ Strip(lines[l_idx - 1]) = <<>>
  /\ Len(entries) >= 1
  /\ entries[Len(entries)].author = <<>>
  /\ entries[Len(entries)].entry_date = current_date
  /\ entries[Len(entries)].content # <<>>
  /\ entries[Len(entries)].content = Strip(lines[l_idx - 2])

\* ---------------------------------------------------------------------
\* C29  every date boundary with a line below it gives an entry
\* ---------------------------------------------------------------------

\* the date boundary lines of the lines L
DateLinesOf(L) == {i \in 1..Len(L) : IsDateLine(Strip(L[i]))}

\* a line that is not blank lies between the boundary d of D and the next
\* boundary or the end of the lines L
HasLineBelow(L, D, d) ==
  \E i \in (d + 1)..Len(L) :
    /\ Strip(L[i]) # <<>>
    /\ \A j \in (d + 1)..i : j \notin D

LiveDateLines(L, D) == {d \in D : HasLineBelow(L, D, d)}

\* the date texts of the boundaries T of L in source order
DateTextsOf(L, T) == [n \in 1..Cardinality(T) |-> Strip(L[NthRow(T, n)])]

\* s without the repetitions of an element right after itself
RECURSIVE Distinct(_)
Distinct(s) ==
  IF Len(s) <= 1 THEN s
  ELSE IF s[1] = s[2] THEN Distinct(Tail(s))
       ELSE <<s[1]>> \o Distinct(Tail(s))

\* the entries ents hold, in source order, one or more entries for each of the
\* boundaries T of L and none for another boundary
EntriesOfBoundaries(ents, L, T) ==
  /\ Len(ents) >= Cardinality(T)
  /\ \A d \in T : \E k \in 1..Len(ents) : ents[k].date_str = Strip(L[d]) /\ ents[k].entry_date # None
  /\ Distinct([k \in 1..Len(ents) |-> ents[k].date_str]) = Distinct(DateTextsOf(L, T))

\* C29: at the end of input every date boundary that has a line that is not
\* blank before the next boundary or the end has one or more entries with
\* its date, a boundary without such a line has none, and the entries are in
\* source order
OpenEntriesFlushed ==
  (prog = "journal" /\ pc = "done")
    => EntriesOfBoundaries(entries, TextLines, LiveDateLines(TextLines, DateLinesOf(TextLines)))

\* two boundaries of which only the second has a line below it, and that
\* line is an author without content: one entry, for the second date
OpenEntriesFlushedWitness ==
  /\ prog = "journal" /\ pc = "done" /\ Len(TextLines) = 3
  /\ DateLinesOf(TextLines) = {1, 2}
  /\ LiveDateLines(TextLines, {1, 2}) = {2}
  /\ Strip(TextLines[1]) # Strip(TextLines[2])
  /\ Len(entries) = 1
  /\ entries[1].date_str = TextLines[2]
  /\ entries[1].author = TextLines[3] /\ entries[1].content = <<>>

\* ---------------------------------------------------------------------
\* C30  the two entry points of the experiment extractor
\* ---------------------------------------------------------------------

\* C30: for a file whose rows are rows and whose name is source_name,
\* parse_experiment_csv returns the Experiment that parse_experiment_grid
\* returns on the rows and the name, the experiment date and the empty grid
\* included
CsvAgreesWithGrid ==
  (prog = "csv" /\ pc = "done") => exp = ParseExperimentGrid(rows, source_name)

\* the grid entry point as a function is the grid entry point pass by pass
GridPassesCompose ==
  (prog = "exp" /\ pc = "done") => exp = ParseExperimentGrid(rows, source_name)

====
